---- MODULE Spec2Model ----
(***************************************************************************)
(* Model of the metafield copy / sync tools of nordisk_shopify_sync:       *)
(*   streamlit_app.py            copy engine, sync-flag store, copy UI     *)
(*   update_app.py               cross-store sync (Shop A -> Shop B, C)    *)
(*   copy_product_meta.py        duplicate-title tool (requests, v1)       *)
(*   copy_product_meta_fields.py duplicate-title tool (requests, v2)       *)
(* The remote store is a map owner -> list of metafields; the remote keeps *)
(* (owner, namespace, key) unique and validates a value against its type.  *)
(***************************************************************************)
EXTENDS Integers, Sequences, FiniteSets, TLC

VARIABLES
    store,      \* remote metafields: owner -> sequence of metafield records
    cfg,        \* the operator's copy options (widgets of the copy panel)
    last,       \* what the last operation returned / issued
    npass,      \* number of operations run so far
    http,       \* state of one remote request helper call
    pager       \* state of one paginated fetch

vars == <<store, cfg, last, npass, http, pager>>

(***************************************************************************)
(* Bounds of the model.                                                    *)
(***************************************************************************)
MaxDonorMf == 2     \* regular metafields on the donor in an initial state
MaxRecvMf == 2      \* regular metafields on the receiver in an initial state
MaxPasses == 2      \* operations per behaviour
MaxFaults == 1      \* writes of one operation the remote answers with an error
PageSize == 1       \* metafields per page of a listing (250 in the code)
MixinPage == 2      \* metafields resource.metafields() returns (50 in the code)
MaxCalls == 2       \* calls of a request helper per behaviour
SentCap == 7        \* the count of requests of one call is kept up to this
MaxItems == 3       \* items of a remote result set
MaxRuns == 3        \* runs of the page script per behaviour
MaxRemote == 2      \* changes of a store's product list per behaviour

\* copy_product_meta_fields.py:31, _rest(..., max_retries=5).
max_retries == 5
\* streamlit_app.py:40, the length of backoffs = [0.6, 1.2, 2.0, 3.0].
Backoffs == 4

Range(f) == {f[i] : i \in DOMAIN f}

(***************************************************************************)
(* Values.  A metafield value is stored remotely as a string; the Python   *)
(* code turns it into an int / float / bool / parsed JSON / str.           *)
(***************************************************************************)
PyStr(s) == [py |-> "str", s |-> s, n |-> 0, b |-> FALSE, j |-> <<>>]
PyInt(n) == [py |-> "int", s |-> "", n |-> n, b |-> FALSE, j |-> <<>>]
PyFloat(n) == [py |-> "float", s |-> "", n |-> n, b |-> FALSE, j |-> <<>>]
PyBool(b) == [py |-> "bool", s |-> "", n |-> 0, b |-> b, j |-> <<>>]
PyJson(j) == [py |-> "json", s |-> "", n |-> 0, b |-> FALSE, j |-> j]
PyNone == [py |-> "none", s |-> "", n |-> 0, b |-> FALSE, j |-> <<>>]

\* int(s) / float(s) of Python on the strings of the model: the number, or
\* a ValueError.
ParseNumber(s) ==
    CASE s = "0" -> [ok |-> TRUE, n |-> 0]
      [] s = "1" -> [ok |-> TRUE, n |-> 1]
      [] s = "2" -> [ok |-> TRUE, n |-> 2]
      [] s = "42" -> [ok |-> TRUE, n |-> 42]
      [] s = " 42 " -> [ok |-> TRUE, n |-> 42]
      [] OTHER -> [ok |-> FALSE, n |-> 0]

\* str(n) of Python.
NumberText(n) ==
    CASE n = 0 -> "0"
      [] n = 1 -> "1"
      [] n = 2 -> "2"
      [] OTHER -> "42"

\* str(x) of a Python float.
FloatText(n) ==
    CASE n = 0 -> "0.0"
      [] n = 1 -> "1.0"
      [] n = 2 -> "2.0"
      [] OTHER -> "42.0"

\* str.lower() on the strings of the model.
Lower(s) ==
    CASE s = "Yes" -> "yes"
      [] s = "Lamp" -> "lamp"
      [] s = "Desk" -> "desk"
      [] s = "TRUE" -> "true"
      [] s = "True" -> "true"
      [] s = "Y" -> "y"
      [] s = "T" -> "t"
      [] OTHER -> s

\* json.loads on the strings of the model: the parsed document (a list of
\* keys, the only JSON documents the tool writes), or a ValueError.
JsonLoads(s) ==
    CASE s = "[]" -> [ok |-> TRUE, j |-> <<>>]
      [] s = "[\"x\"]" -> [ok |-> TRUE, j |-> <<"x">>]
      [] s = "[\"y\"]" -> [ok |-> TRUE, j |-> <<"y">>]
      [] s = "[\"x\", \"y\"]" -> [ok |-> TRUE, j |-> <<"x", "y">>]
      [] s = "[\"y\", \"x\"]" -> [ok |-> TRUE, j |-> <<"y", "x">>]
      [] OTHER -> [ok |-> FALSE, j |-> <<>>]

\* json.dumps of a list of keys.
JsonDumps(j) ==
    CASE j = <<>> -> "[]"
      [] j = <<"x">> -> "[\"x\"]"
      [] j = <<"y">> -> "[\"y\"]"
      [] j = <<"x", "y">> -> "[\"x\", \"y\"]"
      [] j = <<"y", "x">> -> "[\"y\", \"x\"]"
      [] OTHER -> "[...]"

\* str(value) of Python.
PyText(v) ==
    CASE v.py = "str" -> v.s
      [] v.py = "int" -> NumberText(v.n)
      [] v.py = "float" -> FloatText(v.n)
      [] v.py = "bool" -> (IF v.b THEN "True" ELSE "False")
      [] v.py = "json" -> JsonDumps(v.j)
      [] OTHER -> "None"

\* streamlit_app.py: _normalize_value_for_type(value, mtype); an exception of
\* int() / float() is swallowed by the outer except and the value returned
\* unchanged.
normalize_value_for_type(value, mtype) ==
    IF mtype \in {"integer", "number", "float", "decimal"}
    THEN IF value.py = "str" /\ ParseNumber(value.s).ok
         THEN IF mtype = "integer" THEN PyInt(ParseNumber(value.s).n)
                                   ELSE PyFloat(ParseNumber(value.s).n)
         ELSE IF value.py \in {"int", "float"}
              THEN IF mtype = "integer" THEN PyInt(value.n) ELSE PyFloat(value.n)
              ELSE value
    ELSE IF mtype = "boolean"
    THEN PyBool(Lower(PyText(value)) \in {"true", "1", "yes", "y", "t"})
    ELSE IF mtype = "json"
    THEN IF value.py = "json" THEN value
         ELSE IF value.py = "str" /\ JsonLoads(value.s).ok
              THEN PyJson(JsonLoads(value.s).j)
              ELSE value
    ELSE IF value.py = "none" THEN PyStr("") ELSE PyStr(PyText(value))

(***************************************************************************)
(* The remote store (Shopify Admin API behind shopify.Metafield / requests).*)
(***************************************************************************)
SYNC_NAMESPACE == "sync"
SYNC_KEY == "sync_fields"

Metafield(ns, key, type, value) ==
    [namespace |-> ns, key |-> key, type |-> type, value |-> value]

\* Positions of the metafields (ns, key) of a list.
Positions(mfs, ns, key) ==
    {i \in 1..Len(mfs) : mfs[i].namespace = ns /\ mfs[i].key = key}

Has(mfs, ns, key) == Positions(mfs, ns, key) # {}

\* The remote's validation of a written value against the metafield type
\* (a rejected write is HTTP 422: save() returns False).
RemoteValid(type, v) ==
    CASE type \in {"integer", "number_integer"} ->
            v.py = "int" \/ (v.py = "str" /\ ParseNumber(v.s).ok)
      [] type \in {"float", "number_decimal"} ->
            v.py \in {"int", "float"} \/ (v.py = "str" /\ ParseNumber(v.s).ok)
      [] type = "boolean" -> v.py = "bool" \/ (v.py = "str" /\ v.s \in {"true", "false"})
      [] type = "json" -> v.py = "json" \/ (v.py = "str" /\ JsonLoads(v.s).ok)
      [] OTHER -> v.py = "str"

\* The string the remote stores for a written value.
RemoteText(v) ==
    CASE v.py = "int" -> NumberText(v.n)
      [] v.py = "float" -> FloatText(v.n)
      [] v.py = "bool" -> (IF v.b THEN "true" ELSE "false")
      [] v.py = "json" -> JsonDumps(v.j)
      [] OTHER -> v.s

\* PUT of an existing metafield: its value (and type) are replaced in place.
RemoteUpdate(mfs, ns, key, type, v) ==
    [i \in 1..Len(mfs) |->
        IF mfs[i].namespace = ns /\ mfs[i].key = key
        THEN Metafield(ns, key, type, RemoteText(v))
        ELSE mfs[i]]

\* A remote that appends whatever is posted.
RemoteAppend(mfs, ns, key, type, v) ==
    Append(mfs, Metafield(ns, key, type, RemoteText(v)))

\* POST of a new metafield: appended; the remote keeps (owner, namespace,
\* key) unique, so a POST for a pair the owner already has replaces it.
RemoteCreate(mfs, ns, key, type, v) ==
    IF Has(mfs, ns, key)
    THEN RemoteUpdate(mfs, ns, key, type, v)
    ELSE Append(mfs, Metafield(ns, key, type, RemoteText(v)))

\* What a write attempt comes to: "raise" (the request raised: 429, 5xx,
\* connection error), "fail" (save() returned False) or "ok".
WriteResult(o, type, v) ==
    IF o = "raise" THEN "raise"
    ELSE IF o = "fail" \/ ~RemoteValid(type, v) THEN "fail"
    ELSE "ok"

Outcomes == {"ok", "fail", "raise"}

(***************************************************************************)
(* Sync-flag store.                                                        *)
(***************************************************************************)
\* streamlit_app.py: get_sync_keys(resource), given the metafields that
\* _metafields_for_resource returned ([] when the fetch raised).
get_sync_keys(mfs) ==
    LET hits == Positions(mfs, SYNC_NAMESPACE, SYNC_KEY) IN
    IF hits = {} THEN <<>>
    ELSE LET m == mfs[CHOOSE i \in hits : \A k \in hits : i <= k] IN
         IF JsonLoads(m.value).ok THEN JsonLoads(m.value).j ELSE <<>>

(***************************************************************************)
(* Copy engine (streamlit_app.py).                                         *)
(***************************************************************************)
LogLine(tag, ns, key, info) == [tag |-> tag, ns |-> ns, key |-> key, info |-> info]

FieldRec(src, tgt, ns, key, decision, result) ==
    [source |-> src, target |-> tgt, ns |-> ns, key |-> key,
     decision |-> decision, result |-> result]

WriteEvent(kind, owner, ns, key, present, result) ==
    [ev |-> "write", kind |-> kind, owner |-> owner, ns |-> ns, key |-> key,
     present |-> present, result |-> result, ms |-> 0]

SleepEvent(ms) ==
    [ev |-> "sleep", kind |-> "", owner |-> "", ns |-> "", key |-> "",
     present |-> FALSE, result |-> "", ms |-> ms]

\* The counters of a pass, all 0 (streamlit_app.py:272 and :371-372).
NewAcc(recv) ==
    [recv |-> recv, total |-> 0, copied |-> 0, skipped_exists |-> 0,
     skipped_ns |-> 0, skipped_key |-> 0, skipped_unsynced |-> 0, errors |-> 0,
     logs |-> <<>>, fields |-> <<>>, events |-> <<>>, crashed |-> FALSE]

\* The page loop of the fetchers of streamlit_app.py (:135-141, :152-158,
\* :165-171) on a remote listing; fail_at = k > 0: the request of page k
\* raises.  The first find is outside any try; an exception of next_page()
\* ends the loop ("except Exception: break") with the items read so far.
PagedFetch(items, fail_at) ==
    [raised |-> fail_at = 1,
     items |-> IF fail_at = 1 THEN <<>>
               ELSE IF fail_at > 1 /\ (fail_at - 1) * PageSize < Len(items)
               THEN SubSeq(items, 1, (fail_at - 1) * PageSize)
               ELSE items]

\* streamlit_app.py: find_product_metafields_all / find_variant_metafields_all
\* on an owner whose remote listing is mfs.  fault "first": the first find
\* raises; fault "next": next_page() raises after the first page, which the
\* loop swallows (except Exception: break), keeping the items read so far.
find_metafields_all(mfs, fault) ==
    PagedFetch(mfs, CASE fault = "first" -> 1 [] fault = "next" -> 2 [] OTHER -> 0)

\* Which fault the read of the donor's (receiver's) metafields meets under env.
DonorFault(env) ==
    CASE env.fetch = "donor" -> "first"
      [] env.fetch = "donor_page" -> "next"
      [] OTHER -> "none"

ReceiverFault(env) ==
    CASE env.fetch = "receiver" -> "first"
      [] env.fetch = "receiver_page" -> "next"
      [] OTHER -> "none"

\* The filters of the loop body (:275-284, :395-407): "" when dm passes.
FilterSkip(dm, a) ==
    IF a.ns_filter # {} /\ dm.namespace \notin a.ns_filter THEN "skipped_ns"
    ELSE IF a.only_synced /\ dm.key \notin a.synced_keyset THEN "skipped_unsynced"
    ELSE IF a.keys_given /\ dm.key \notin a.keys_to_copy THEN "skipped_key"
    ELSE ""

\* The overwrite gate (:287-288, :409-410).
OverwriteGate(receiver_existing, a) == receiver_existing /\ ~a.overwrite

\* "if dry_run:" (:295, :417).
DryRunOff(a) == FALSE
DryRun(a) == a.dry_run

\* The type a write carries (:300-310): the receiver's own type is kept
\* unless it is None, "" or "string"; a new metafield gets the donor's.
PayloadType(receiver_existing, existing, mtype) ==
    IF receiver_existing /\ existing.type \notin {"", "string"}
    THEN existing.type ELSE mtype

\* The remote listing after a save() that succeeded (:300-310): the existing
\* object is saved in place, a new Metafield is posted otherwise.
SavedAsNew(recv, receiver_existing, ns, key, ptype, value) ==
    Append(recv, Metafield(ns, key, ptype, RemoteText(value)))
Saved(recv, receiver_existing, ns, key, ptype, value) ==
    IF receiver_existing
    THEN RemoteUpdate(recv, ns, key, ptype, value)
    ELSE RemoteCreate(recv, ns, key, ptype, value)

\* "if ok: copied += 1 else: errors += 1; logs.append(Failed to save ...)"
\* and the except branch (:312-319, :434-439).
Uncounted(counted, ns, key, r) == counted
Counted(counted, ns, key, r) ==
    CASE r = "ok" -> [counted EXCEPT !.copied = @ + 1]
      [] r = "fail" ->
            [counted EXCEPT !.errors = @ + 1,
                            !.logs = Append(@, LogLine("Failed to save", ns, key, ""))]
      [] OTHER ->
            [counted EXCEPT !.errors = @ + 1,
                            !.logs = Append(@, LogLine("Error", ns, key, "exception"))]

\* One iteration of the loop over the donor's metafields: the body of
\* "for dm in donor_metafields" (product, :274-319) and of "for dm in
\* donor_mfs" (variant, :394-439).  a: the arguments and what the pass read
\* before the loop; o: how the remote answers a write of this field.
CopyField(acc, dm, a, o) ==
    LET ns == dm.namespace
        key == dm.key
        hits == Positions(a.receiver_map, ns, key)
        receiver_existing == hits # {}
        existing == a.receiver_map[CHOOSE i \in hits : \A k \in hits : i >= k]
        mtype == IF dm.type = "" THEN "string" ELSE dm.type
        value == normalize_value_for_type(PyStr(dm.value), mtype)
        ptype == PayloadType(receiver_existing, existing, mtype)
        action == IF receiver_existing THEN "UPDATE" ELSE "CREATE"
        r == WriteResult(o, ptype, value)
        counted == IF a.level = "product"
                   THEN [acc EXCEPT !.total = @ + 1] ELSE acc
        note(d, res) == FieldRec(a.source, a.target, ns, key, d, res)
        wrote == WriteEvent(IF receiver_existing THEN "update" ELSE "create",
                            a.target, ns, key, Has(acc.recv, ns, key), r)
    IN
    IF ns = "" \/ key = "" THEN acc
    ELSE IF FilterSkip(dm, a) # ""
    THEN [acc EXCEPT ![FilterSkip(dm, a)] = @ + 1,
                     !.fields = Append(@, note(FilterSkip(dm, a), "-"))]
    ELSE IF OverwriteGate(receiver_existing, a)
    THEN [counted EXCEPT !.skipped_exists = @ + 1,
                         !.fields = Append(@, note("skipped_exists", "-"))]
    ELSE IF DryRun(a)
    THEN [counted EXCEPT !.copied = @ + 1,
                         !.logs = Append(@, LogLine("DRY RUN", ns, key, action)),
                         !.fields = Append(@, note(action, "dry"))]
    ELSE [Counted(counted, ns, key, r) EXCEPT
            !.recv = IF r = "ok"
                     THEN Saved(@, receiver_existing, ns, key, ptype, value) ELSE @,
            !.fields = Append(@, note(action, r)),
            !.events = IF r = "raise" THEN Append(@, wrote)
                       ELSE @ \o <<wrote, SleepEvent(a.pause)>>]

RECURSIVE CopyLoop(_, _, _, _, _)
CopyLoop(acc, donor_metafields, i, a, out) ==
    IF i > Len(donor_metafields) THEN acc
    ELSE CopyLoop(CopyField(acc, donor_metafields[i], a, out[i]),
                  donor_metafields, i + 1, a, out)

\* Counters in which the attempted total counts every donor metafield met.
SummaryAllSeen(acc) ==
    [total |-> Len(acc.fields), copied |-> acc.copied,
     skipped_exists |-> acc.skipped_exists,
     skipped_ns |-> acc.skipped_ns, skipped_key |-> acc.skipped_key,
     skipped_unsynced |-> acc.skipped_unsynced, errors |-> acc.errors]

\* The counters a pass reports in its summary line.
Summary(acc) ==
    [total |-> acc.total, copied |-> acc.copied, skipped_exists |-> acc.skipped_exists,
     skipped_ns |-> acc.skipped_ns, skipped_key |-> acc.skipped_key,
     skipped_unsynced |-> acc.skipped_unsynced, errors |-> acc.errors]

\* ns_filter of :267 / :368: a str or a non-empty list becomes a set, anything
\* falsy becomes None (modelled as the empty set, which "if ns_filter" skips).
NsFilter(namespace_filter) == namespace_filter

\* The options of a pass: keys_to_copy is [given |-> FALSE] for None.
Options(keys_to_copy, namespace_filter, overwrite, only_synced, dry_run) ==
    [keys_to_copy |-> keys_to_copy, namespace_filter |-> namespace_filter,
     overwrite |-> overwrite, only_synced |-> only_synced, dry_run |-> dry_run]

NoKeys == [given |-> FALSE, keys |-> {}]
Keys(ks) == [given |-> TRUE, keys |-> ks]

\* What a pass hands back: its counters, its log, and (for the checks) the
\* per-field decisions, the requests issued and the remote state before and
\* after the pass.
PassResult(level, donor, receiver, o, before, after, acc, pairs, nomatch, logs) ==
    [status |-> "returned", level |-> level, donor |-> donor, receiver |-> receiver,
     opts |-> o, before |-> before, after |-> after, summary |-> Summary(acc),
     pairs |-> pairs, nomatch |-> nomatch,
     logs |-> logs, fields |-> acc.fields, events |-> acc.events]

\* A pass that ended in an exception before its loop (a read raised).
PassRaised(level, donor, receiver, o, before) ==
    [status |-> "raised", level |-> level, donor |-> donor, receiver |-> receiver,
     opts |-> o, before |-> before, after |-> before, summary |-> Summary(NewAcc(<<>>)),
     pairs |-> 0, nomatch |-> 0,
     logs |-> <<>>, fields |-> <<>>, events |-> <<>>]

\* streamlit_app.py: copy_product_metafields(donor_product, receiver_product,
\* keys_to_copy, namespace_filter, overwrite, only_synced, dry_run) on the
\* remote state st.  env.fetch names the read that raises (if any), env.out
\* how the remote answers the write of each donor metafield.
\* What the pass read before its loop, and its arguments (:267-270, and
\* :368, :386-392 for a pair of variants).
PassArgs(level, source, target, st, o, env, pause) ==
    [level |-> level, source |-> source, target |-> target,
     receiver_map |-> find_metafields_all(st[target], ReceiverFault(env)).items,
     ns_filter |-> NsFilter(o.namespace_filter),
     only_synced |-> o.only_synced,
     synced_keyset |-> IF ~o.only_synced \/ env.fetch = "sync" THEN {}
                       ELSE Range(get_sync_keys(st[source])),
     keys_given |-> o.keys_to_copy.given,
     keys_to_copy |-> o.keys_to_copy.keys,
     overwrite |-> o.overwrite, dry_run |-> o.dry_run, pause |-> pause]

\* The end of copy_product_metafields (:321-329): the header line is put
\* first, the summary line last.
ProductReturn(st, donor_product, receiver_product, o, acc) ==
    [store |-> [st EXCEPT ![receiver_product] = acc.recv],
     result |-> PassResult("product", donor_product, receiver_product, o, st,
                           [st EXCEPT ![receiver_product] = acc.recv], acc, 0, 0,
                           <<LogLine("Metafield copy", donor_product, receiver_product,
                                     IF o.dry_run THEN "(DRY RUN)" ELSE "")>>
                           \o acc.logs \o <<LogLine("Copied", "", "", "summary")>>)]

copy_product_metafields(st, donor_product, receiver_product, o, env) ==
    IF env.fetch \in {"donor", "receiver"}
    THEN [store |-> st,
          result |-> PassRaised("product", donor_product, receiver_product, o, st)]
    ELSE ProductReturn(st, donor_product, receiver_product, o,
            CopyLoop(NewAcc(st[receiver_product]),
                     find_metafields_all(st[donor_product], DonorFault(env)).items, 1,
                     PassArgs("product", donor_product, receiver_product, st, o, env, 500),
                     env.out))
(***************************************************************************)
(* The catalog: products and their variants (owned by the remote store;    *)
(* the tool never creates or deletes them).                                *)
(***************************************************************************)
Products == {"P1", "P2", "P3"}

\* The products of the store in the order the remote lists them (by id).
ProductSeq == <<"P1", "P2", "P3">>

ProductId(p) == CHOOSE i \in 1..Len(ProductSeq) : ProductSeq[i] = p

ProductTitle(p) ==
    CASE p = "P1" -> "lamp"
      [] p = "P2" -> "Lamp "
      [] OTHER -> "Desk"

Variant(id, title, sku, barcode, position) ==
    [id |-> id, title |-> title, sku |-> sku, barcode |-> barcode, position |-> position]

\* product.variants, in the remote's order.
variants(product) ==
    CASE product = "P1" ->
            <<Variant("V1", "S ", "K-1", "111", 1), Variant("V4", "M", "K-2", "", 2)>>
      [] product = "P2" ->
            <<Variant("V2", "S", "K-1", "111", 1), Variant("V3", "S", "K-1", "222", 2)>>
      [] OTHER -> <<>>

VariantIds == {"V1", "V2", "V3", "V4"}
Owners == Products \cup VariantIds

\* str.strip() on the strings of the model.
Strip(s) ==
    CASE s = "S " -> "S"
      [] s = " S" -> "S"
      [] s = "111 " -> "111"
      [] s = " 111" -> "111"
      [] s = "lamp " -> "lamp"
      [] s = "Lamp " -> "Lamp"
      [] s = " a" -> "a"
      [] s = " " -> ""
      [] OTHER -> s

\* streamlit_app.py: _variant_match_key(variant, by): [none |-> TRUE] is None.
variant_match_key(variant, by) ==
    CASE by = "title" -> [none |-> FALSE, k |-> Strip(variant.title)]
      [] by = "position" -> [none |-> FALSE, k |-> NumberText(variant.position)]
      [] OTHER -> [none |-> FALSE, k |-> Strip(variant.sku)]

\* A lookup that keeps the first variant of each match key.
variant_map_first(product, by) ==
    LET vs == variants(product)
        keyed == {i \in 1..Len(vs) :
                    /\ ~variant_match_key(vs[i], by).none
                    /\ variant_match_key(vs[i], by).k # ""}
        ks == {variant_match_key(vs[i], by).k : i \in keyed}
    IN [k \in ks |->
          vs[CHOOSE i \in keyed :
               /\ variant_match_key(vs[i], by).k = k
               /\ \A j \in keyed : variant_match_key(vs[j], by).k = k => i <= j]]

\* streamlit_app.py: _variant_map_by(product, by): the dict match_key ->
\* variant, built by m[k] = v over product.variants in order, so that a later
\* variant replaces an earlier one with the same key.
variant_map_by(product, by) ==
    LET vs == variants(product)
        keyed == {i \in 1..Len(vs) :
                    /\ ~variant_match_key(vs[i], by).none
                    /\ variant_match_key(vs[i], by).k # ""}
        ks == {variant_match_key(vs[i], by).k : i \in keyed}
    IN [k \in ks |->
          vs[CHOOSE i \in keyed :
               /\ variant_match_key(vs[i], by).k = k
               /\ \A j \in keyed : variant_match_key(vs[j], by).k = k => j <= i]]

\* One matched pair of the loop over the donor's variants (:381-439): the
\* metafields of donor variant dvar are copied to receiver variant rvar.
\* vacc.acc: the counters and the log; vacc.st: the remote state; vacc.used:
\* the number of donor metafields met so far (the index into env.out).
PairDone(vacc, dvar, rvar, acc) ==
    [vacc EXCEPT !.pairs = @ + 1,
                 !.acc = acc,
                 !.st = [@ EXCEPT ![rvar.id] = acc.recv],
                 !.used = @ + Len(vacc.st[dvar.id])]

CopyPair(vacc, dvar, rvar, o, env) ==
    PairDone(vacc, dvar, rvar,
        CopyLoop([vacc.acc EXCEPT !.recv = vacc.st[rvar.id]],
                 find_metafields_all(vacc.st[dvar.id], DonorFault(env)).items, 1,
                 PassArgs("variant", dvar.id, rvar.id, vacc.st, o, env, 300),
                 [i \in 1..Len(vacc.st[dvar.id]) |-> env.out[vacc.used + i]]))

\* One iteration of the loop over the donor's variants (:374-439).
VariantStep(vacc, dvar, dkey, receiver_lookup, match_by, o, env) ==
    IF dkey.none \/ dkey.k \notin DOMAIN receiver_lookup
    THEN [vacc EXCEPT
            !.nomatch = @ + 1,
            !.acc.logs = Append(@, LogLine("No receiver match", dvar.id, "", match_by))]
    ELSE CopyPair(vacc, dvar, receiver_lookup[dkey.k], o, env)

RECURSIVE VariantLoop(_, _, _, _, _, _, _)
VariantLoop(vacc, dvars, vi, receiver_lookup, match_by, o, env) ==
    IF vi > Len(dvars) THEN vacc
    ELSE VariantLoop(VariantStep(vacc, dvars[vi], variant_match_key(dvars[vi], match_by),
                                 receiver_lookup, match_by, o, env),
                     dvars, vi + 1, receiver_lookup, match_by, o, env)

\* Whether some donor variant of the pass has a receiver match (the pass then
\* reads that variant's metafields).
AnyMatch(donor_product, receiver_product, match_by) ==
    \E i \in 1..Len(variants(donor_product)) :
        /\ ~variant_match_key(variants(donor_product)[i], match_by).none
        /\ variant_match_key(variants(donor_product)[i], match_by).k
              \in DOMAIN variant_map_by(receiver_product, match_by)

\* The end of copy_variant_metafields (:441-450).
VariantReturn(st, donor_product, receiver_product, match_by, o, vacc) ==
    [store |-> vacc.st,
     result |-> PassResult("variant", donor_product, receiver_product, o, st,
                           vacc.st, vacc.acc, vacc.pairs, vacc.nomatch,
                           <<LogLine("Variant copy", donor_product, receiver_product, match_by)>>
                           \o vacc.acc.logs
                           \o <<LogLine("Variant metafields", "", "", "summary")>>)]

\* streamlit_app.py: copy_variant_metafields(donor_product, receiver_product,
\* match_by, keys_to_copy, namespace_filter, overwrite, only_synced, dry_run).
copy_variant_metafields(st, donor_product, receiver_product, match_by, o, env) ==
    IF env.fetch \in {"donor", "receiver"}
       /\ AnyMatch(donor_product, receiver_product, match_by)
    THEN [store |-> st,
          result |-> PassRaised("variant", donor_product, receiver_product, o, st)]
    ELSE VariantReturn(st, donor_product, receiver_product, match_by, o,
            VariantLoop([acc |-> NewAcc(<<>>), st |-> st, pairs |-> 0,
                         nomatch |-> 0, used |-> 0],
                        variants(donor_product), 1,
                        variant_map_by(receiver_product, match_by), match_by, o, env))

(***************************************************************************)
(* Copy panel of the UI (streamlit_app.py:629-876).                        *)
(***************************************************************************)
\* The keys of the exclude table (:700-725): the donor product's metafield
\* keys that pass the namespace filter and, with only-synced ticked, are in
\* the donor product's sync set.
key_to_namespaces(donor_metafields_list, namespace_filter, only_synced_keys, donor_sync_keys) ==
    {donor_metafields_list[i].key : i \in
        {i \in 1..Len(donor_metafields_list) :
            LET m == donor_metafields_list[i] IN
            /\ m.key # "" /\ m.namespace # ""
            /\ (namespace_filter = {} \/ m.namespace \in namespace_filter)
            /\ (~only_synced_keys \/ m.key \in donor_sync_keys)}}

\* keys_to_copy_final of copy_clicked (:797-811).
keys_to_copy_final(donor_metafields_list, table_keys, excluded_keys) ==
    IF table_keys # {}
    THEN table_keys \ excluded_keys
    ELSE {donor_metafields_list[i].key : i \in 1..Len(donor_metafields_list)}
            \ ({""} \cup excluded_keys)

\* The variant pass of one receiver is done (:849-876).
AfterVariant(u, p, v) ==
    IF v.result.status = "raised"
    THEN [u EXCEPT !.st = p.store, !.passes = @ \o <<p.result, v.result>>,
                   !.crashed = TRUE]
    ELSE [u EXCEPT !.st = v.store, !.passes = @ \o <<p.result, v.result>>]

\* The product pass of one receiver is done (:839-861).
AfterProduct(u, p, donor_product, rcv, o, copy_variants, env) ==
    IF p.result.status = "raised"
    THEN [u EXCEPT !.passes = Append(@, p.result), !.crashed = TRUE]
    ELSE IF ~copy_variants
    THEN [u EXCEPT !.st = p.store, !.passes = Append(@, p.result)]
    ELSE AfterVariant(u, p,
            copy_variant_metafields(p.store, donor_product, rcv, "title", o, env))

\* A receiver loop without the test for the donor.
ReceiverStepAll(u, donor_product, rcv, o, copy_variants, env) ==
    IF u.crashed THEN u
    ELSE AfterProduct(u, copy_product_metafields(u.st, donor_product, rcv, o, env),
                      donor_product, rcv, o, copy_variants, env)

\* One iteration of the loop over the receivers of copy_clicked (:826-876).
ReceiverStep(u, donor_product, rcv, o, copy_variants, env) ==
    IF u.crashed THEN u
    ELSE IF rcv = donor_product
    THEN [u EXCEPT !.skipped = Append(@, rcv)]
    ELSE AfterProduct(u, copy_product_metafields(u.st, donor_product, rcv, o, env),
                      donor_product, rcv, o, copy_variants, env)

RECURSIVE ReceiverLoop(_, _, _, _, _, _, _)
ReceiverLoop(u, donor_product, receiver_products, i, o, copy_variants, env) ==
    IF i > Len(receiver_products) THEN u
    ELSE ReceiverLoop(ReceiverStep(u, donor_product, receiver_products[i], o,
                                   copy_variants, env),
                      donor_product, receiver_products, i + 1, o, copy_variants, env)

\* copy_clicked (:796-876): c.excluded are the keys ticked in the exclude
\* table; get_product_metafields_with_retries returned the donor's metafields,
\* or [] after its retries ran out (env.fetch = "cache").
ClickedWith(st, cf, c, env, donor_metafields_list, table_keys) ==
    ReceiverLoop([st |-> st, passes |-> <<>>, skipped |-> <<>>, crashed |-> FALSE],
                 c.donor, c.receivers, 1,
                 Options(Keys(keys_to_copy_final(donor_metafields_list, table_keys,
                                                 c.excluded \cap table_keys)),
                         cf.namespace_filter, cf.overwrite, cf.only_synced, c.dry_run),
                 c.copy_variants, env)

DonorMetafieldsList(st, c, env) == IF env.fetch = "cache" THEN <<>> ELSE st[c.donor]

copy_clicked(st, cf, c, env) ==
    ClickedWith(st, cf, c, env, DonorMetafieldsList(st, c, env),
                key_to_namespaces(DonorMetafieldsList(st, c, env), cf.namespace_filter,
                                  cf.only_synced,
                                  IF env.fetch = "sync" THEN {}
                                  ELSE Range(get_sync_keys(st[c.donor]))))

(***************************************************************************)
(* Duplicate-title tools: copy_product_meta_fields.py ("Scan & Copy") and  *)
(* copy_product_meta.py (run).  Both group the products of Shop A by       *)
(* normalized title and copy the donor's product metafields to the others. *)
(***************************************************************************)
\* copy_product_meta_fields.py: normalize_title; copy_product_meta.py:
\* norm_title.
normalize_title(t) == Lower(Strip(t))

\* The products with normalized title t, in the order of the product list.
TitleGroup(products, t) ==
    SelectSeq(products, LAMBDA q : normalize_title(ProductTitle(q)) = t)

\* The groups of the product list in the order their title first appears.
TitleGroups(products) ==
    LET firsts == SelectSeq([i \in 1..Len(products) |-> i],
                    LAMBDA i : \A j \in 1..(i - 1) :
                        normalize_title(ProductTitle(products[j]))
                            # normalize_title(ProductTitle(products[i])))
    IN [k \in 1..Len(firsts) |->
            TitleGroup(products, normalize_title(ProductTitle(products[firsts[k]])))]

\* First product of plist with the most metafields (sorted(..., reverse=True)[0]
\* and max(...) both keep the first of equals).
MostMetafields(st, plist) ==
    plist[CHOOSE i \in 1..Len(plist) :
            /\ \A j \in 1..Len(plist) : Len(st[plist[j]]) <= Len(st[plist[i]])
            /\ \A j \in 1..(i - 1) : Len(st[plist[j]]) < Len(st[plist[i]])]

\* Donor of a title group under the donor selection strategy (:168-180).
ChooseDonor(st, plist, donor_strategy) ==
    CASE donor_strategy = "Most metafields" -> MostMetafields(st, plist)
      [] donor_strategy = "Oldest product ID" ->
            CHOOSE q \in Range(plist) : \A r \in Range(plist) : ProductId(q) <= ProductId(r)
      [] OTHER ->
            CHOOSE q \in Range(plist) : \A r \in Range(plist) : ProductId(q) >= ProductId(r)

\* copy_product_meta_fields.py: build_allow_predicate(allowed)(ns, key);
\* an entry is <<ns, key>>, with key "*" for None (the whole namespace).
can_copy(allowed, ns, key) ==
    \/ allowed = {}
    \/ <<ns, key>> \in allowed
    \/ <<ns, "*">> \in allowed

\* copy_product_meta_fields.py: upsert_metafield for one planned action of a
\* target (the body of the loops :198-212).  A request that fails raises out
\* of the tool (_rest raises): the run ends there.
ScanField(acc, mf, a, o) ==
    LET exists == Has(a.receiver_map, mf.namespace, mf.key)
        action == IF exists THEN "UPDATE" ELSE "CREATE"
        r == WriteResult(o, mf.type, PyStr(mf.value))
        wrote == WriteEvent(IF exists THEN "update" ELSE "create", a.target,
                            mf.namespace, mf.key, Has(acc.recv, mf.namespace, mf.key), r)
        note(res) == FieldRec(a.source, a.target, mf.namespace, mf.key, action, res)
    IN
    IF acc.crashed THEN acc
    ELSE IF a.dry_run
    THEN [acc EXCEPT !.copied = @ + 1,
                     !.logs = Append(@, LogLine("would", mf.namespace, mf.key, action)),
                     !.fields = Append(@, note("dry"))]
    ELSE IF r = "ok"
    THEN [acc EXCEPT
            !.recv = IF exists
                     THEN RemoteUpdate(@, mf.namespace, mf.key, mf.type, PyStr(mf.value))
                     ELSE RemoteCreate(@, mf.namespace, mf.key, mf.type, PyStr(mf.value)),
            !.copied = @ + 1,
            !.logs = Append(@, LogLine("did", mf.namespace, mf.key, action)),
            !.fields = Append(@, note("ok")),
            !.events = @ \o <<wrote, SleepEvent(a.pause)>>]
    ELSE [acc EXCEPT !.errors = @ + 1, !.crashed = TRUE,
                     !.fields = Append(@, note("raise")),
                     !.events = Append(@, [wrote EXCEPT !.result = "raise"])]

RECURSIVE ScanLoop(_, _, _, _, _)
ScanLoop(acc, donor_mfs, i, a, out) ==
    IF i > Len(donor_mfs) THEN acc
    ELSE ScanLoop(ScanField(acc, donor_mfs[i], a, IF i <= Len(out) THEN out[i] ELSE "ok"),
                  donor_mfs, i + 1, a, out)

DupArgs(donor, tgt, st, dry_run, pause) ==
    [source |-> donor, target |-> tgt, receiver_map |-> st[tgt],
     dry_run |-> dry_run, pause |-> pause]

DupOptions(dry_run) == Options(NoKeys, {}, TRUE, FALSE, dry_run)

\* One target of a title group is done.
TargetDone(u, donor, tgt, dry_run, acc) ==
    [u EXCEPT
        !.st = [@ EXCEPT ![tgt] = acc.recv],
        !.crashed = acc.crashed,
        !.passes = Append(@,
            [PassResult("duplicate", donor, tgt, DupOptions(dry_run), u.st,
                        [u.st EXCEPT ![tgt] = acc.recv], acc, 0, 0, acc.logs)
             EXCEPT !.status = IF acc.crashed THEN "raised" ELSE "returned"])]

\* The loop over the targets of a group (copy_product_meta_fields.py
\* :191-221); donor_mfs are the donor's metafields the allow-list lets pass.
RECURSIVE ScanTargets(_, _, _, _, _, _, _)
ScanTargets(u, plist, i, donor, donor_mfs, dry_run, env) ==
    IF i > Len(plist) \/ u.crashed THEN u
    ELSE IF plist[i] = donor
    THEN ScanTargets([u EXCEPT !.skipped = Append(@, donor)], plist, i + 1, donor,
                     donor_mfs, dry_run, env)
    ELSE ScanTargets(
            TargetDone(u, donor, plist[i], dry_run,
                ScanLoop(NewAcc(u.st[plist[i]]), donor_mfs, 1,
                         DupArgs(donor, plist[i], u.st, dry_run, 50), env.out)),
            plist, i + 1, donor, donor_mfs, dry_run, env)

\* The loop over the duplicate title groups (:166-221).
RECURSIVE ScanGroups(_, _, _, _, _, _, _)
ScanGroups(u, groups, g, donor_strategy, allowed, dry_run, env) ==
    IF g > Len(groups) \/ u.crashed THEN u
    ELSE IF Len(groups[g]) < 2
    THEN ScanGroups(u, groups, g + 1, donor_strategy, allowed, dry_run, env)
    ELSE ScanGroups(
            ScanTargets(u, groups[g], 1, ChooseDonor(u.st, groups[g], donor_strategy),
                SelectSeq(u.st[ChooseDonor(u.st, groups[g], donor_strategy)],
                          LAMBDA m : can_copy(allowed, m.namespace, m.key)),
                dry_run, env),
            groups, g + 1, donor_strategy, allowed, dry_run, env)

\* copy_product_meta_fields.py: the "Scan & Copy" button (:144-235).
scan_and_copy(st, donor_strategy, allowed, dry_run, env) ==
    ScanGroups([st |-> st, passes |-> <<>>, skipped |-> <<>>, crashed |-> FALSE],
               TitleGroups(ProductSeq), 1, donor_strategy, allowed, dry_run, env)

\* copy_product_meta.py: the loop over the donor metafields of one target
\* (:135-151): allowed_namespaces is the split text ([""] when left blank).
RunTarget(u, donor, tgt, allowed_namespaces, dry_run, env) ==
    TargetDone(u, donor, tgt, dry_run,
        ScanLoop(NewAcc(u.st[tgt]),
                 SelectSeq(u.st[donor],
                           LAMBDA m : allowed_namespaces = <<"">>
                                      \/ m.namespace \in Range(allowed_namespaces)),
                 1, DupArgs(donor, tgt, u.st, dry_run, 0), env.out))

RECURSIVE RunTargets(_, _, _, _, _, _, _)
RunTargets(u, prods, i, donor, allowed_namespaces, dry_run, env) ==
    IF i > Len(prods) \/ u.crashed THEN u
    ELSE IF prods[i] = donor
    THEN RunTargets([u EXCEPT !.skipped = Append(@, donor)], prods, i + 1, donor,
                    allowed_namespaces, dry_run, env)
    ELSE RunTargets(RunTarget(u, donor, prods[i], allowed_namespaces, dry_run, env),
                    prods, i + 1, donor, allowed_namespaces, dry_run, env)

RECURSIVE RunGroups(_, _, _, _, _, _)
RunGroups(u, groups, g, allowed_namespaces, dry_run, env) ==
    IF g > Len(groups) \/ u.crashed THEN u
    ELSE IF Len(groups[g]) < 2
    THEN RunGroups(u, groups, g + 1, allowed_namespaces, dry_run, env)
    ELSE RunGroups(
            RunTargets(u, groups[g], 1, MostMetafields(u.st, groups[g]),
                       allowed_namespaces, dry_run, env),
            groups, g + 1, allowed_namespaces, dry_run, env)

\* copy_product_meta.py: run(), the "Start duplicate metafield sync" button
\* (:111-156).
run(st, allowed_namespaces, dry_run, env) ==
    RunGroups([st |-> st, passes |-> <<>>, skipped |-> <<>>, crashed |-> FALSE],
              TitleGroups(ProductSeq), 1, allowed_namespaces, dry_run, env)

(***************************************************************************)
(* State machine of the copy tools: one operator action runs one handler   *)
(* to its end.                                                             *)
(***************************************************************************)
NsKeys == <<<<"a", "x">>, <<"a", "y">>, <<"b", "x">>>>

\* (type, value) pairs the metafield NsKeys[i] of a donor / of a receiver
\* starts with: every value is one the remote accepts for its type.
DonorTV == <<{<<"integer", "1">>, <<"string", "abc">>}, {<<"integer", "1">>},
             {<<"integer", "1">>}>>
RecvTV == <<{<<"integer", "2">>}, {}, {<<"string", "abc">>}>>

\* The lists of at most max metafields over NsKeys (in that order) with
\* types and values of tvs.
ListOf(S, f) ==
    LET idx == SelectSeq(<<1, 2, 3>>, LAMBDA i : i \in S) IN
    [k \in 1..Len(idx) |->
        Metafield(NsKeys[idx[k]][1], NsKeys[idx[k]][2], f[idx[k]][1], f[idx[k]][2])]

Lists(tvs, max) ==
    UNION {{ListOf(S, f) : f \in {g \in [S -> UNION Range(tvs)] :
                                    \A i \in S : g[i] \in tvs[i]}} :
            S \in {T \in SUBSET (1..3) : Cardinality(T) <= max}}

\* The reserved sync metafield an owner may carry.
SyncLists ==
    {<<>>, <<Metafield(SYNC_NAMESPACE, SYNC_KEY, "json", "[\"x\"]")>>}

DonorLists == {l \o y : l \in Lists(DonorTV, MaxDonorMf), y \in SyncLists}
RecvLists == Lists(RecvTV, MaxRecvMf)

Empty == [o \in Owners |-> <<>>]

\* Initial remote states: the metafields are on the products ...
ProductStores ==
    {[Empty EXCEPT !["P1"] = d, !["P2"] = r] : d \in DonorLists, r \in RecvLists}

\* ... or on the variants V1 (of P1) and V3 (of P2).
VariantStores ==
    {[Empty EXCEPT !["P1"] = p, !["V1"] = d, !["V3"] = r] :
        p \in Lists(<<{<<"integer", "1">>}, {}, {}>>, 1),
        d \in {l \o y : l \in Lists(DonorTV, MaxDonorMf - 1), y \in SyncLists},
        r \in RecvLists}

OutLen == MaxDonorMf + 1

AllOk == [i \in 1..OutLen |-> "ok"]

\* How the remote behaves during one operation: which read raises, and its
\* answer to the write of the i-th donor metafield of a pass.  At most
\* MaxFaults writes over the first n are answered with an error.
Envs(n, dry_run, only_synced, ui) ==
    {[fetch |-> "none", out |-> f] :
        f \in {g \in [1..OutLen -> Outcomes] :
                 /\ ~dry_run
                 /\ \A i \in 1..OutLen : i > n => g[i] = "ok"
                 /\ Cardinality({i \in 1..OutLen : g[i] # "ok"}) <= MaxFaults}}
    \cup {[fetch |-> x, out |-> AllOk] :
            x \in IF ui THEN {"none", "cache"}
                  ELSE {"none", "donor", "receiver", "donor_page", "receiver_page"}
                       \cup (IF only_synced THEN {"sync"} ELSE {})}

NoCall ==
    [op |-> "none", donor |-> "", receivers |-> <<>>, keys |-> NoKeys,
     match_by |-> "", excluded |-> {}, copy_variants |-> FALSE, dry_run |-> FALSE]

\* A direct call of one of the two copy functions, as a one-pass operation.
OnePass(p) ==
    [st |-> p.store, passes |-> <<p.result>>, skipped |-> <<>>,
     crashed |-> p.result.status = "raised"]

CallOptions(cf, call) ==
    Options(call.keys, cf.namespace_filter, cf.overwrite, cf.only_synced, call.dry_run)

\* The handler call runs on remote state st under options cf.
Run(st, cf, call, env) ==
    CASE call.op = "copy_product_metafields" ->
            OnePass(copy_product_metafields(st, call.donor, call.receivers[1],
                                            CallOptions(cf, call), env))
      [] call.op = "copy_variant_metafields" ->
            OnePass(copy_variant_metafields(st, call.donor, call.receivers[1],
                                            call.match_by, CallOptions(cf, call), env))
      [] call.op = "scan_and_copy" ->
            scan_and_copy(st, call.match_by, call.excluded, call.dry_run, env)
      [] call.op = "run" ->
            run(st, call.receivers, call.dry_run, env)
      [] OTHER -> copy_clicked(st, cf, call, env)

Done(call, env, r) ==
    /\ store' = r.st
    /\ last' = [call |-> call, env |-> env, passes |-> r.passes,
                skipped |-> r.skipped, crashed |-> r.crashed,
                prev |-> last.passes]
    /\ npass' = npass + 1
    /\ UNCHANGED <<cfg, http, pager>>

Do(call, env) == Done(call, env, Run(store, cfg, call, env))

\* Length of the longest metafield list a pass from donor reads.
DonorLen(donor) ==
    LET ls == {Len(store[donor])} \cup
              {Len(store[variants(donor)[i].id]) : i \in 1..Len(variants(donor))}
    IN CHOOSE n \in ls : \A m \in ls : m <= n

\* copy_product_metafields called on (P1, P2).
CopyProductPass ==
    /\ npass = 0
    /\ \E dry_run \in BOOLEAN, keys \in {NoKeys, Keys({"x"})} :
       \E env \in Envs(Len(store["P1"]), dry_run, cfg.only_synced, FALSE) :
          Do([NoCall EXCEPT !.op = "copy_product_metafields", !.donor = "P1",
                            !.receivers = <<"P2">>, !.keys = keys,
                            !.dry_run = dry_run], env)

\* copy_variant_metafields called on (P1, P2).
CopyVariantPass ==
    /\ npass = 0
    /\ \E dry_run \in BOOLEAN, keys \in {NoKeys, Keys({"x"})}, by \in {"title"} :
       \E env \in Envs(DonorLen("P1"), dry_run, cfg.only_synced, FALSE) :
          Do([NoCall EXCEPT !.op = "copy_variant_metafields", !.donor = "P1",
                            !.receivers = <<"P2">>, !.keys = keys, !.match_by = by,
                            !.dry_run = dry_run], env)

\* The operator presses "Copy metafields from donor -> receivers".
CopyClicked ==
    /\ npass = 0
    /\ \E dry_run \in BOOLEAN, copy_variants \in BOOLEAN,
          receivers \in {<<"P2">>, <<"P1", "P2">>},
          excluded \in SUBSET {"x"} :
       \E env \in Envs(0, dry_run, cfg.only_synced, TRUE) :
          Do([NoCall EXCEPT !.op = "copy_clicked", !.donor = "P1",
                            !.receivers = receivers, !.match_by = "title",
                            !.excluded = excluded, !.copy_variants = copy_variants,
                            !.dry_run = dry_run], env)

DefaultCfg == [namespace_filter |-> {}, overwrite |-> FALSE, only_synced |-> FALSE]

\* The operator presses "Scan & Copy" (copy_product_meta_fields.py); the
\* call record carries the donor strategy in match_by and the allow-list in
\* excluded.  The page has no copy panel: its options are at their defaults.
ScanAndCopy ==
    /\ npass = 0
    /\ cfg = DefaultCfg
    /\ \E dry_run \in BOOLEAN,
          donor_strategy \in {"Most metafields", "Oldest product ID", "Newest product ID"},
          allowed \in {{}, {<<"a", "*">>}, {<<"a", "x">>}} :
       \E env \in Envs(DonorLen("P1"), dry_run, FALSE, TRUE) :
          /\ env.fetch = "none"
          /\ Do([NoCall EXCEPT !.op = "scan_and_copy", !.match_by = donor_strategy,
                               !.excluded = allowed, !.dry_run = dry_run], env)

\* The operator presses "Start duplicate metafield sync" (copy_product_meta.py);
\* the call record carries allowed_namespaces in receivers.
RunDuplicateSync ==
    /\ npass = 0
    /\ cfg = DefaultCfg
    /\ \E dry_run \in BOOLEAN, allowed_namespaces \in {<<"">>, <<"a">>, <<"b", " a">>} :
       \E env \in Envs(DonorLen("P1"), dry_run, FALSE, TRUE) :
          /\ env.fetch = "none"
          /\ Do([NoCall EXCEPT !.op = "run", !.receivers = allowed_namespaces,
                               !.dry_run = dry_run], env)

\* How the remote behaves when the call is made again: as before, except that
\* the writes of a live run that follows a dry run may meet errors (the reads
\* are answered as they were).
AgainEnvs(dry_run) ==
    IF last.call.dry_run /\ ~dry_run /\ last.call.op # "scan_and_copy"
    THEN {[e EXCEPT !.fetch = last.env.fetch] :
            e \in {x \in Envs(DonorLen("P1"), FALSE, FALSE, TRUE) : x.fetch = "none"}}
    ELSE {last.env}

\* The same call is made again (the button is pressed again), live: a live
\* run is repeated, or a dry run is followed by the live run it previewed.
RunAgain ==
    /\ npass \in 1..(MaxPasses - 1)
    /\ last.call.op \in {"copy_product_metafields", "copy_variant_metafields",
                         "scan_and_copy"}
    /\ \E env \in AgainEnvs(FALSE) :
          Do([last.call EXCEPT !.dry_run = FALSE], env)

Init ==
    /\ store \in ProductStores \cup VariantStores
    /\ cfg \in [namespace_filter : {{}, {"a"}}, overwrite : BOOLEAN, only_synced : BOOLEAN]
    /\ last = [call |-> NoCall, env |-> [fetch |-> "none", out |-> AllOk],
               passes |-> <<>>, skipped |-> <<>>, crashed |-> FALSE, prev |-> <<>>]
    /\ npass = 0
    /\ http = 0
    /\ pager = 0

Next ==
    \/ CopyProductPass
    \/ CopyVariantPass
    \/ CopyClicked
    \/ ScanAndCopy
    \/ RunDuplicateSync
    \/ RunAgain

Spec == Init /\ [][Next]_vars

(***************************************************************************)
(* Cross-store sync (update_app.py) and the sync-flag save of the main app *)
(* (streamlit_app.py: save_sync_keys).  Remote state: the metafield        *)
(* listings of the primary product and variant of Shop A and of the        *)
(* products and variants of Shop B and Shop C that carry the same barcode. *)
(***************************************************************************)
SUCCESS_ICON == "ok-icon"
FAILURE_ICON == "error-icon"

Min(a, b) == IF a <= b THEN a ELSE b

\* resource.metafields() of the shopify mixin (update_app.py:46, :104, :131,
\* :169, :176): one request, so the first page of the listing only.
metafields(mfs) == SubSeq(mfs, 1, Min(Len(mfs), MixinPage))

\* update_app.py: get_sync_keys(resource), on the resource's listing.
get_sync_keys_update_app(mfs) ==
    LET hits == Positions(metafields(mfs), SYNC_NAMESPACE, SYNC_KEY) IN
    IF hits = {} THEN <<>>
    ELSE LET m == mfs[CHOOSE i \in hits : \A k \in hits : i <= k] IN
         IF JsonLoads(m.value).ok THEN JsonLoads(m.value).j ELSE <<>>

\* update_app.py: normalize_type.
normalize_type(metafield_type) ==
    CASE metafield_type = "integer" -> "number_integer"
      [] metafield_type = "float" -> "number_decimal"
      [] OTHER -> metafield_type

\* update_app.py: convert_value_for_type; ok = FALSE when int(), float() or
\* json.loads raises.
convert_value_for_type(value, metafield_type) ==
    CASE metafield_type = "integer" ->
            [ok |-> ParseNumber(value.s).ok, v |-> PyInt(ParseNumber(value.s).n)]
      [] metafield_type = "float" ->
            [ok |-> ParseNumber(value.s).ok, v |-> PyFloat(ParseNumber(value.s).n)]
      [] metafield_type = "boolean" ->
            [ok |-> TRUE, v |-> PyBool(Lower(PyText(value)) \in {"true", "1", "yes"})]
      [] metafield_type = "json" ->
            [ok |-> JsonLoads(value.s).ok, v |-> PyJson(JsonLoads(value.s).j)]
      [] OTHER -> [ok |-> TRUE, v |-> PyStr(PyText(value))]

\* d[k] = v of a Python dict.
Put(d, k, v) == [x \in DOMAIN d \cup {k} |-> IF x = k THEN v ELSE d[x]]

\* "field_results[...] = SUCCESS_ICON" after save() (:142-155, :186-199): the
\* value save() returns is not looked at.
SaveRecorded(r) == SUCCESS_ICON

\* update_app.py: the body of "for m in primary_metafields" (:125-158) and of
\* "for m in primary_variant.metafields()" (:169-202) for one metafield m of
\* the primary, written to owner; name is the key of field_results.
SyncField(acc, m, owner, name, o) ==
    LET c == convert_value_for_type(PyStr(m.value), m.type)
        m_type == normalize_type(m.type)
        existing == Has(metafields(acc.recv), m.namespace, m.key)
        r == WriteResult(o, m_type, c.v)
        wrote == WriteEvent(IF existing THEN "update" ELSE "create", owner,
                            m.namespace, m.key, Has(acc.recv, m.namespace, m.key), r)
        failed(x) == [x EXCEPT
                        !.log = Append(@, LogLine("Error syncing", m.namespace, m.key, owner)),
                        !.field_results = Put(@, name, FAILURE_ICON)]
        announced == [acc EXCEPT
                        !.log = Append(@, LogLine(IF existing THEN "Updating" ELSE "Creating",
                                                  m.namespace, m.key, owner))]
    IN
    IF ~c.ok THEN failed(acc)
    ELSE IF r = "raise"
    THEN failed([announced EXCEPT !.events = Append(@, wrote)])
    ELSE [announced EXCEPT
            !.recv = IF r # "ok" THEN @
                     ELSE IF existing
                     THEN RemoteUpdate(@, m.namespace, m.key, m_type, c.v)
                     ELSE RemoteCreate(@, m.namespace, m.key, m_type, c.v),
            !.events = Append(@, wrote),
            !.field_results = Put(@, name, SaveRecorded(r))]

RECURSIVE SyncLoop(_, _, _, _, _, _)
SyncLoop(acc, ms, i, owner, prefix, out) ==
    IF i > Len(ms) THEN acc
    ELSE SyncLoop(SyncField(acc, ms[i], owner,
                            IF prefix = "" THEN ms[i].key ELSE prefix \o ":" \o ms[i].key,
                            out[i]),
                  ms, i + 1, owner, prefix, out)

\* A selection that lets every metafield of the listing through.
MarkedAll(mfs, keys) == metafields(mfs)

\* The metafields of a listing whose key is in keys (:103-105, :170).
Marked(mfs, keys) == SelectSeq(metafields(mfs), LAMBDA m : m.key \in Range(keys))

SyncShops == <<"B", "C">>
SyncOwners == {"A:P", "A:V", "B:P", "B:V", "C:P", "C:V"}

\* The store an owner of the sync model belongs to.
StoreOf(owner) ==
    CASE owner \in {"A:P", "A:V"} -> "A"
      [] owner \in {"B:P", "B:V"} -> "B"
      [] owner \in {"C:P", "C:V"} -> "C"
      [] OTHER -> ""

\* What sync_product_fields does with the store connection: it activates the
\* session of a store (connect_to_store, update_app.py:24-26, :115) or sends
\* a read for the resource owner; session is the store whose session is the
\* active one (ShopifyResource.activate_session sets it for every request
\* that follows, whatever object the request is made through).
SessionEvent(op, owner, session) == [op |-> op, owner |-> owner, session |-> session]

\* The answer to resource.metafields() for the resource owner while the
\* session of store session is active.  The request goes to the active
\* store; a store asked for the metafields of a resource of another store
\* (an id it does not have) answers 404, which raises, or an empty listing.
ActiveSessionListing(st, owner, session, env) ==
    IF StoreOf(owner) = session
    THEN [raised |-> FALSE, mfs |-> st[owner]]
    ELSE [raised |-> env.foreign = "not_found", mfs |-> <<>>]

\* The product part of one store is done: the variant part follows
\* (:160-202), then "Sync complete" (:204-205).  The reads of the primary
\* variant (get_sync_keys(primary_variant), :163, and
\* primary_variant.metafields(), :169) are sent while the session of the
\* target store is the active one; an exception of :163 is outside the
\* per-field try and ends the store's part in the except of :207-209.
SyncVariants(u, shop, p, env) ==
    LET primary_variant == ActiveSessionListing(u.st, "A:V", shop, env)
        asked == [u EXCEPT !.st = [@ EXCEPT ![shop \o ":P"] = p.recv],
                           !.trace = Append(@, SessionEvent("read", "A:V", shop))]
        v == SyncLoop([p EXCEPT !.recv = u.st[shop \o ":V"]],
                      Marked(primary_variant.mfs,
                             get_sync_keys_update_app(primary_variant.mfs)), 1,
                      shop \o ":V", shop \o ":V",
                      [i \in 1..MixinPage |-> env.out[Min(Len(env.out), Len(p.events) + i)]])
    IN IF primary_variant.raised
       THEN [asked EXCEPT
               !.results = Put(@, shop,
                   [status |-> "failed",
                    log |-> Append(p.log, LogLine("sync failed", "", "", shop)),
                    field_results |-> <<>>, events |-> p.events])]
       ELSE [asked EXCEPT
               !.st = [@ EXCEPT ![shop \o ":V"] = v.recv],
               !.trace = Append(@, SessionEvent("read", "A:V", shop)),
               !.results = Put(@, shop,
                   [status |-> "done",
                    log |-> Append(v.log, LogLine("Sync complete", "", "", shop)),
                    field_results |-> v.field_results,
                    events |-> v.events])]

\* update_app.py: one iteration of the loop over the stores (:109-209).
\* target: "active", "draft" or "missing" (what find_product_by_variant_barcode
\* comes to); env.conn names the store whose connection raises.
SyncStore(u, shop, target, primary_metafields, env) ==
    LET connected == [u EXCEPT !.trace = Append(@, SessionEvent("connect", "", shop))]
        looked == [connected EXCEPT
                     !.trace = Append(@, SessionEvent("read", shop \o ":P", shop))]
    IN
    IF env.conn = shop
    THEN [connected EXCEPT !.results = Put(@, shop,
            [status |-> "failed", log |-> <<LogLine("sync failed", "", "", shop)>>,
             field_results |-> <<>>, events |-> <<>>])]
    ELSE IF target # "active"
    THEN [looked EXCEPT !.results = Put(@, shop,
            [status |-> "error",
             log |-> <<LogLine("Connected", "", "", shop),
                       LogLine("Target product not found or inactive", "", "", shop)>>,
             field_results |-> <<>>, events |-> <<>>])]
    ELSE SyncVariants(looked, shop,
            SyncLoop([recv |-> u.st[shop \o ":P"],
                      log |-> <<LogLine("Connected", "", "", shop)>>,
                      field_results |-> <<>>, events |-> <<>>],
                     primary_metafields, 1, shop \o ":P", "", env.out),
            env)

\* A loop over the stores that ends after its first store.
SyncStoresFirst(u, i, targets, primary_metafields, env) ==
    SyncStore(u, SyncShops[1], targets[SyncShops[1]], primary_metafields, env)

RECURSIVE SyncStores(_, _, _, _, _)
SyncStores(u, i, targets, primary_metafields, env) ==
    IF i > Len(SyncShops) THEN u
    ELSE SyncStores(SyncStore(u, SyncShops[i], targets[SyncShops[i]],
                              primary_metafields, env),
                    i + 1, targets, primary_metafields, env)

\* update_app.py: sync_product_fields(primary_product); the primary product
\* has a variant with a barcode.  The caller has the session of Shop A
\* active (:222); the sync keys and the metafields of the primary product
\* are read before any other store is connected (:102-105).
sync_product_fields(st, targets, env) ==
    SyncStores([st |-> st, results |-> <<>>,
                trace |-> <<SessionEvent("read", "A:P", "A"),
                            SessionEvent("read", "A:P", "A")>>],
               1, targets,
               Marked(st["A:P"], get_sync_keys_update_app(st["A:P"])), env)

\* streamlit_app.py: _metafields_for_resource(resource): the listing, or []
\* when the fetch raised.
metafields_for_resource(mfs, fault) == find_metafields_all(mfs, fault).items

\* streamlit_app.py: save_sync_keys(resource, keys) on the owner's listing
\* mfs; o: how the remote answers the write.
save_sync_keys(mfs, owner, keys, fault, o) ==
    LET existing == Has(metafields_for_resource(mfs, fault), SYNC_NAMESPACE, SYNC_KEY)
        r == WriteResult(o, "json", PyStr(JsonDumps(keys)))
    IN [recv |-> IF r # "ok" THEN mfs
                 ELSE IF existing
                 THEN RemoteUpdate(mfs, SYNC_NAMESPACE, SYNC_KEY, "json", PyStr(JsonDumps(keys)))
                 ELSE RemoteCreate(mfs, SYNC_NAMESPACE, SYNC_KEY, "json", PyStr(JsonDumps(keys))),
        returned |-> r = "ok",
        events |-> <<WriteEvent(IF existing THEN "update" ELSE "create", owner,
                                SYNC_NAMESPACE, SYNC_KEY,
                                Has(mfs, SYNC_NAMESPACE, SYNC_KEY), r)>>]

\* A call of get_sync_keys(resource) on an owner whose listing is mfs, by
\* the get_sync_keys of module impl.  streamlit_app.py (:212-223) reads
\* through _metafields_for_resource inside a try; update_app.py (:45-52)
\* iterates resource.metafields() outside any try, so that a failing request
\* raises out of the function.
get_sync_keys_call(impl, mfs, fault) ==
    IF impl = "update_app"
    THEN [raised |-> fault = "first",
          keys |-> IF fault = "first" THEN <<>> ELSE get_sync_keys_update_app(mfs)]
    ELSE [raised |-> FALSE, keys |-> get_sync_keys(metafields_for_resource(mfs, fault))]

\* Initial listings of the sync model.
PrimaryLists ==
    {l \o y : l \in {<<>>, <<Metafield("a", "x", "integer", "1")>>,
                     <<Metafield("a", "y", "single_line_text_field", "abc")>>},
              y \in {<<>>, <<Metafield(SYNC_NAMESPACE, SYNC_KEY, "json", "[\"x\"]")>>,
                     <<Metafield(SYNC_NAMESPACE, SYNC_KEY, "json", "[\"x\", \"y\"]")>>}}

TargetLists ==
    {<<>>,
     <<Metafield("a", "x", "number_integer", "2")>>,
     <<Metafield("b", "x", "single_line_text_field", "abc"),
       Metafield("a", "y", "single_line_text_field", "abc"),
       Metafield("a", "x", "number_integer", "2")>>}

SyncEnvs ==
    {[conn |-> c, out |-> f, foreign |-> x] :
        c \in {"none", "B", "C"},
        x \in {"not_found", "empty"},
        f \in {g \in [1..MixinPage -> Outcomes] :
                 Cardinality({i \in 1..MixinPage : g[i] # "ok"}) <= MaxFaults}}

SyncInit ==
    /\ store \in {[o \in SyncOwners |->
                     CASE o = "A:P" -> p
                       [] o = "A:V" -> v
                       [] o = "B:P" -> t
                       [] OTHER -> <<>>] :
                  p \in PrimaryLists,
                  v \in {<<>>, <<Metafield("a", "x", "integer", "1"),
                                 Metafield(SYNC_NAMESPACE, SYNC_KEY, "json", "[\"x\"]")>>},
                  t \in TargetLists}
    /\ cfg \in {[B |-> "active", C |-> c] : c \in {"active", "draft", "missing"}}
    /\ last = [op |-> "none", results |-> <<>>, events |-> <<>>, before |-> <<>>,
               returned |-> TRUE, env |-> <<>>, keys |-> <<>>, prev |-> <<>>]
    /\ npass = 0
    /\ http = 0
    /\ pager = 0

\* The operator presses "Sync Product Fields" for the primary product.
SyncProductFields ==
    /\ npass < MaxPasses
    /\ \E env \in SyncEnvs :
          LET u == sync_product_fields(store, cfg, env) IN
          /\ store' = u.st
          /\ last' = [op |-> "sync_product_fields", results |-> u.results,
                      events |-> <<>>, before |-> store, returned |-> TRUE,
                      env |-> env, keys |-> <<>>, prev |-> <<>>,
                      trace |-> u.trace]
    /\ npass' = npass + 1
    /\ UNCHANGED <<cfg, http, pager>>

\* The operator saves the sync flags of the primary product or variant
\* (before any sync is run, or once more after a save).
SaveSyncKeys ==
    /\ npass = 0 \/ (npass < MaxPasses /\ last.op = "save_sync_keys")
    /\ \E owner \in {"A:P", "A:V"}, keys \in {<<"x">>, <<"x", "y">>},
          fault \in {"none", "first", "next"}, o \in Outcomes :
          LET u == save_sync_keys(store[owner], owner, keys, fault, o) IN
          /\ store' = [store EXCEPT ![owner] = u.recv]
          /\ last' = [op |-> "save_sync_keys", results |-> <<>>, events |-> u.events,
                      before |-> store, returned |-> u.returned,
                      env |-> [owner |-> owner, fault |-> fault, out |-> o],
                      keys |-> keys,
                      prev |-> IF last.op = "save_sync_keys"
                               THEN <<[owner |-> last.env.owner, keys |-> last.keys,
                                       returned |-> last.returned]>>
                               ELSE <<>>]
    /\ npass' = npass + 1
    /\ UNCHANGED <<cfg, http, pager>>

\* The sync flags of the primary product or variant are read, by the page of
\* streamlit_app.py or by update_app.py.
GetSyncKeys ==
    /\ npass < MaxPasses
    /\ last.op # "get_sync_keys"
    /\ \E owner \in {"A:P", "A:V"}, fault \in {"none", "first", "next"},
          impl \in {"streamlit_app", "update_app"} :
          LET g == get_sync_keys_call(impl, store[owner], fault) IN
          last' = [op |-> "get_sync_keys", results |-> <<>>, events |-> <<>>,
                   before |-> store, returned |-> ~g.raised,
                   env |-> [owner |-> owner, fault |-> fault, out |-> impl],
                   keys |-> g.keys, prev |-> <<>>]
    /\ npass' = npass + 1
    /\ UNCHANGED <<store, cfg, http, pager>>

SyncNext == SyncProductFields \/ SaveSyncKeys \/ GetSyncKeys

SyncSpec == SyncInit /\ [][SyncNext]_vars

(***************************************************************************)
(* Properties of the copy tools, checked under Spec.                       *)
(***************************************************************************)
IsCopyPass(p) == p.level \in {"product", "variant"}

FilterSkips == {"skipped_ns", "skipped_unsynced", "skipped_key"}

NoDuplicates(mfs) ==
    \A i, j \in 1..Len(mfs) :
        (mfs[i].namespace = mfs[j].namespace /\ mfs[i].key = mfs[j].key) => i = j

\* The metafields of a product and of its variants in remote state st.
ProductState(st, product) ==
    [o \in {product} \cup {variants(product)[i].id : i \in 1..Len(variants(product))}
        |-> st[o]]

\* What a pass decided for each donor metafield, in order.
Classification(p) ==
    [k \in 1..Len(p.fields) |->
        <<p.fields[k].source, p.fields[k].target, p.fields[k].ns, p.fields[k].key,
          p.fields[k].decision>>]

\* C1: a pass run with dry-run enabled issues no create or update: no write
\* request is recorded, the remote state after the pass is the state before
\* it, whatever the filters, overwrite, only-synced and variant copy are;
\* the same for the duplicate-title tools with their dry-run box ticked.
C1_DryRunNoWrites ==
    last.call.dry_run =>
        \A i \in 1..Len(last.passes) :
            /\ last.passes[i].events = <<>>
            /\ last.passes[i].after = last.passes[i].before
            /\ store = last.passes[i].before

\* A dry run that found something to create or update.
C1_Witness ==
    /\ last.call.dry_run
    /\ \E i \in 1..Len(last.passes) :
          \E k \in 1..Len(last.passes[i].fields) :
              /\ last.passes[i].fields[k].result = "dry"
              /\ last.passes[i].fields[k].decision = "UPDATE"

\* Whether the donor metafield of field record f passes the filters of pass
\* p: the namespace filter, the exclude list (the keys ticked in the copy UI;
\* for a direct call, the keys left out of keys_to_copy) and only-synced.
PassesFilters(p, f) ==
    /\ p.opts.namespace_filter = {} \/ f.ns \in p.opts.namespace_filter
    /\ IF last.call.op = "copy_clicked"
       THEN f.key \notin last.call.excluded
       ELSE ~p.opts.keys_to_copy.given \/ f.key \in p.opts.keys_to_copy.keys
    /\ ~p.opts.only_synced \/ f.key \in Range(get_sync_keys(p.before[f.source]))

\* C2: in a copy pass whose reads all succeed, a donor metafield gets past
\* the filters (it is copied, or held back only by the overwrite gate) if and
\* only if it passes the namespace filter and the exclude list and
\* (only-synced is off or its key is in the donor's sync set).
C2_FilterComposition ==
    last.env.fetch = "none" =>
        \A i \in 1..Len(last.passes) :
            IsCopyPass(last.passes[i]) =>
                \A k \in 1..Len(last.passes[i].fields) :
                    (last.passes[i].fields[k].decision \notin FilterSkips)
                        <=> PassesFilters(last.passes[i], last.passes[i].fields[k])

\* C3: in a copy pass with overwrite = false every metafield the receiver
\* had before the pass is there unchanged after it (value and type), and
\* the donor entries that passed the filters and exist on the receiver are
\* each counted once as skipped-existing.
C3_OverwriteGate ==
    \A i \in 1..Len(last.passes) :
        (IsCopyPass(last.passes[i]) /\ ~last.passes[i].opts.overwrite) =>
            /\ \A o \in Owners :
                  /\ Len(last.passes[i].after[o]) >= Len(last.passes[i].before[o])
                  /\ SubSeq(last.passes[i].after[o], 1, Len(last.passes[i].before[o]))
                        = last.passes[i].before[o]
            /\ last.passes[i].summary.skipped_exists =
                  Cardinality({k \in 1..Len(last.passes[i].fields) :
                      /\ last.passes[i].fields[k].decision \notin FilterSkips
                      /\ Has(last.passes[i].before[last.passes[i].fields[k].target],
                             last.passes[i].fields[k].ns, last.passes[i].fields[k].key)})

\* C4: a live copy pass with overwrite = true that is run again on the same
\* donor state with the same options (and the same answers of the remote)
\* leaves the receiver as the first pass left it, with no (namespace, key)
\* twice on any owner.
C4_Idempotent ==
    (npass = 2 /\ Len(last.prev) = Len(last.passes)) =>
        \A i \in 1..Len(last.passes) :
            ( /\ last.passes[i].opts.overwrite
              /\ ~last.passes[i].opts.dry_run
              /\ last.prev[i].opts = last.passes[i].opts
              /\ last.prev[i].donor = last.passes[i].donor
              /\ last.prev[i].receiver = last.passes[i].receiver
              /\ ProductState(last.prev[i].before, last.prev[i].donor)
                    = ProductState(last.passes[i].before, last.passes[i].donor) )
            => /\ ProductState(last.passes[i].after, last.passes[i].receiver)
                    = ProductState(last.prev[i].after, last.prev[i].receiver)
               /\ \A o \in Owners : NoDuplicates(last.passes[i].after[o])

\* A live pass wrote (created and updated) and was run again.
C4_Witness ==
    /\ npass = 2
    /\ Len(last.prev) = 1 /\ Len(last.passes) = 1
    /\ last.passes[1].opts.overwrite /\ ~last.passes[1].opts.dry_run
    /\ last.prev[1].opts = last.passes[1].opts
    /\ \E k \in 1..Len(last.prev[1].fields) :
          last.prev[1].fields[k].decision = "CREATE" /\ last.prev[1].fields[k].result = "ok"
    /\ \E k \in 1..Len(last.passes[1].fields) :
          last.passes[1].fields[k].decision = "UPDATE" /\ last.passes[1].fields[k].result = "ok"

\* A dry run (pass i of the previous operation) followed by the live run of
\* the same call from the same state.
DryThenLive(i) ==
    /\ npass = 2
    /\ i <= Len(last.prev) /\ i <= Len(last.passes)
    /\ last.prev[i].opts.dry_run /\ ~last.passes[i].opts.dry_run
    /\ last.prev[i].before = last.passes[i].before

C10_FullCopy ==
    \A i \in 1..Len(last.passes) :
        ( /\ last.passes[i].level = "product"
          /\ last.passes[i].status = "returned"
          /\ ~last.passes[i].opts.dry_run
          /\ last.passes[i].opts.overwrite
          /\ last.passes[i].opts.namespace_filter = {}
          /\ ~last.passes[i].opts.keys_to_copy.given
          /\ ~last.passes[i].opts.only_synced )
        => /\ \A k \in 1..Len(last.passes[i].before[last.passes[i].donor]) :
                \E m \in 1..Len(last.passes[i].after[last.passes[i].receiver]) :
                    /\ last.passes[i].after[last.passes[i].receiver][m].namespace
                          = last.passes[i].before[last.passes[i].donor][k].namespace
                    /\ last.passes[i].after[last.passes[i].receiver][m].key
                          = last.passes[i].before[last.passes[i].donor][k].key
                    /\ last.passes[i].after[last.passes[i].receiver][m].value
                          = last.passes[i].before[last.passes[i].donor][k].value
           /\ last.passes[i].summary.copied
                 = Len(last.passes[i].before[last.passes[i].donor])
           /\ last.passes[i].summary.skipped_exists = 0
           /\ last.passes[i].summary.errors = 0

\* The variant with id v among the variants of a product.
VariantOf(product, v) ==
    variants(product)[CHOOSE i \in 1..Len(variants(product)) : variants(product)[i].id = v]

\* The receiver variants of pass p that carry the match key of donor variant v.
SameKey(p, v) ==
    {j \in 1..Len(variants(p.receiver)) :
        variant_match_key(variants(p.receiver)[j], p.logs[1].info).k
            = variant_match_key(VariantOf(p.donor, v), p.logs[1].info).k}

\* C12: in a variant pass every donor variant is paired with the last of the
\* receiver variants that carry its match key: no receiver variant with the
\* same key comes after the one the fields of the donor variant went to.
C12_LastDuplicateWins ==
    \A i \in 1..Len(last.passes) :
        (last.passes[i].level = "variant" /\ last.passes[i].status = "returned") =>
            \A k \in 1..Len(last.passes[i].fields) :
                \E t \in SameKey(last.passes[i], last.passes[i].fields[k].source) :
                    /\ variants(last.passes[i].receiver)[t].id
                          = last.passes[i].fields[k].target
                    /\ \A j \in SameKey(last.passes[i], last.passes[i].fields[k].source) :
                          j <= t

\* A variant pass that copied a field of a donor variant whose match key two
\* receiver variants share.
C12_Witness ==
    \E i \in 1..Len(last.passes) :
        /\ last.passes[i].level = "variant"
        /\ last.passes[i].status = "returned"
        /\ \E k \in 1..Len(last.passes[i].fields) :
              /\ Cardinality(SameKey(last.passes[i], last.passes[i].fields[k].source)) >= 2
              /\ last.passes[i].fields[k].result = "ok"

\* The log lines of pass p that are about one field.
FieldLines(p) ==
    {n \in 1..Len(p.logs) : p.logs[n].tag \in {"DRY RUN", "Failed to save", "Error"}}

\* The fields pass p attempted: those that passed the filters and the
\* overwrite gate.
Attempted(p) ==
    {k \in 1..Len(p.fields) : p.fields[k].decision \in {"CREATE", "UPDATE"}}

\* C23: the log a copy pass returns starts with the donor / receiver line,
\* ends with the summary line, which is its only summary line, and has one
\* line for each attempted field, live or dry, failed or not.
C23_LogShape ==
    \A i \in 1..Len(last.passes) :
        (IsCopyPass(last.passes[i]) /\ last.passes[i].status = "returned") =>
            /\ Len(last.passes[i].logs) >= 2
            /\ last.passes[i].logs[1].tag \in {"Metafield copy", "Variant copy"}
            /\ \A n \in 1..Len(last.passes[i].logs) :
                  last.passes[i].logs[n].info = "summary" <=> n = Len(last.passes[i].logs)
            /\ Cardinality(FieldLines(last.passes[i]))
                  = Cardinality(Attempted(last.passes[i]))
            /\ \A k \in Attempted(last.passes[i]) :
                  \E n \in FieldLines(last.passes[i]) :
                      /\ last.passes[i].logs[n].ns = last.passes[i].fields[k].ns
                      /\ last.passes[i].logs[n].key = last.passes[i].fields[k].key

\* C25: in a live pass every write attempt but the last is followed by the
\* pacing delay before the next write attempt is issued, whether the write
\* succeeded, was reported as failed or raised.
C25_PacedWrites ==
    \A i \in 1..Len(last.passes) :
        ( \/ IsCopyPass(last.passes[i])
          \/ (last.passes[i].level = "duplicate" /\ last.call.op = "scan_and_copy") )
        => \A k \in 1..(Len(last.passes[i].events) - 1) :
              last.passes[i].events[k].ev = "write" =>
                  /\ last.passes[i].events[k + 1].ev = "sleep"
                  /\ last.passes[i].events[k + 1].ms > 0

\* The donor metafields with a namespace and a key that pass p read.
DonorRead(p) ==
    SelectSeq(find_metafields_all(p.before[p.donor], DonorFault(last.env)).items,
              LAMBDA m : m.namespace # "" /\ m.key # "")

\* C28: at the return of copy_product_metafields the attempted total is
\* copied + skipped-existing + errors, and the number of donor metafields
\* the pass read is total + skipped-by-namespace + skipped-by-key-filter +
\* skipped-not-synced.
C28_CountersAddUp ==
    \A i \in 1..Len(last.passes) :
        (last.passes[i].level = "product" /\ last.passes[i].status = "returned") =>
            /\ last.passes[i].summary.total
                  = last.passes[i].summary.copied + last.passes[i].summary.skipped_exists
                    + last.passes[i].summary.errors
            /\ Len(DonorRead(last.passes[i]))
                  = last.passes[i].summary.total + last.passes[i].summary.skipped_ns
                    + last.passes[i].summary.skipped_key
                    + last.passes[i].summary.skipped_unsynced

\* A product pass in which a field was copied, a field was not (it failed or
\* was held back by the overwrite gate) and a field was filtered out.
C28_Witness ==
    \E i \in 1..Len(last.passes) :
        /\ last.passes[i].level = "product"
        /\ last.passes[i].status = "returned"
        /\ last.passes[i].summary.copied >= 1
        /\ last.passes[i].summary.errors + last.passes[i].summary.skipped_exists >= 1
        /\ last.passes[i].summary.skipped_ns + last.passes[i].summary.skipped_key
              + last.passes[i].summary.skipped_unsynced >= 1

\* The products whose normalized title no other product has.
UniqueTitled ==
    {q \in Products :
        \A r \in Products \ {q} :
            normalize_title(ProductTitle(r)) # normalize_title(ProductTitle(q))}

\* C29: no pass has its donor as receiver and no write goes to the donor
\* product or one of its variants; in the copy panel a receiver that is the
\* donor is skipped and every other receiver gets its pass; in the
\* duplicate-title tools the donor of a group keeps its metafields and a
\* product with a unique title is never a target.
C29_DonorNeverWritten ==
    /\ \A i \in 1..Len(last.passes) :
          /\ last.passes[i].receiver # last.passes[i].donor
          /\ \A e \in Range(last.passes[i].events) :
                e.ev = "write" =>
                    e.owner \notin DOMAIN ProductState(last.passes[i].before,
                                                       last.passes[i].donor)
          /\ ProductState(last.passes[i].after, last.passes[i].donor)
                = ProductState(last.passes[i].before, last.passes[i].donor)
          /\ last.passes[i].level = "duplicate" =>
                /\ last.passes[i].receiver \notin UniqueTitled
                /\ \A q \in UniqueTitled :
                      last.passes[i].after[q] = last.passes[i].before[q]
    /\ last.call.op = "copy_clicked" =>
          /\ last.call.donor \in Range(last.call.receivers) =>
                last.call.donor \in Range(last.skipped)
          /\ ~last.crashed =>
                \A r \in Range(last.call.receivers) \ {last.call.donor} :
                    \E i \in 1..Len(last.passes) : last.passes[i].receiver = r

\* The copy panel was run live with the donor among the receivers: the donor
\* was skipped and a field was written to the other receiver.
C29_Witness ==
    /\ last.call.op = "copy_clicked"
    /\ ~last.call.dry_run
    /\ last.call.donor \in Range(last.skipped)
    /\ \E i \in 1..Len(last.passes) :
          /\ last.passes[i].receiver # last.call.donor
          /\ \E k \in 1..Len(last.passes[i].fields) : last.passes[i].fields[k].result = "ok"

(***************************************************************************)
(* Properties of the cross-store sync and of the sync-flag save, checked   *)
(* under SyncSpec.                                                         *)
(***************************************************************************)
\* The key of field_results a write event of the sync is recorded under.
ResultName(e, shop) ==
    IF e.owner = shop \o ":P" THEN e.key ELSE e.owner \o ":" \o e.key

\* C5: in a sync pass a field whose write failed (the request raised, or
\* save() reported failure) is recorded as an error under its key and logged
\* with its key; every marked field of the primary product is processed and
\* the pass reaches its closing line.
C5_FieldFailureCounted ==
    last.op = "sync_product_fields" =>
        \A shop \in DOMAIN last.results :
            last.results[shop].status = "done" =>
                /\ last.results[shop].log[Len(last.results[shop].log)].tag = "Sync complete"
                /\ \A i \in 1..Len(Marked(last.before["A:P"],
                                          get_sync_keys_update_app(last.before["A:P"]))) :
                      Marked(last.before["A:P"],
                             get_sync_keys_update_app(last.before["A:P"]))[i].key
                         \in DOMAIN last.results[shop].field_results
                /\ \A k \in 1..Len(last.results[shop].events) :
                      last.results[shop].events[k].result # "ok" =>
                          /\ last.results[shop].field_results[
                                ResultName(last.results[shop].events[k], shop)] = FAILURE_ICON
                          /\ \E n \in 1..Len(last.results[shop].log) :
                                /\ last.results[shop].log[n].tag = "Error syncing"
                                /\ last.results[shop].log[n].key
                                      = last.results[shop].events[k].key

\* The write requests of the last operation of the sync model.
SyncEvents ==
    Range(last.events)
        \cup UNION {Range(last.results[shop].events) : shop \in DOMAIN last.results}

\* C8: every owner has at most one metafield per (namespace, key); a create
\* is only issued for a (namespace, key) the owner does not have, and no
\* metafield an owner had before an operation is gone after it.
C8_UniqueKeys ==
    /\ \A o \in SyncOwners : NoDuplicates(store[o])
    /\ \A e \in SyncEvents : e.kind = "create" => ~e.present
    /\ last.op # "none" =>
          \A o \in SyncOwners :
              \A i \in 1..Len(last.before[o]) :
                  Has(store[o], last.before[o][i].namespace, last.before[o][i].key)

\* The key list in the owner's reserved metafield: what json.loads gives for
\* the value of the first sync/sync_fields metafield, <<>> without one or
\* when the value does not parse.
FlagKeys(mfs) ==
    IF ~Has(mfs, SYNC_NAMESPACE, SYNC_KEY) THEN <<>>
    ELSE LET v == mfs[CHOOSE i \in Positions(mfs, SYNC_NAMESPACE, SYNC_KEY) :
                        \A k \in Positions(mfs, SYNC_NAMESPACE, SYNC_KEY) : i <= k].value
         IN IF JsonLoads(v).ok THEN JsonLoads(v).j ELSE <<>>

\* C19: get_sync_keys never raises; it returns the key list of the owner's
\* reserved metafield when the metafields are read, and the empty list when
\* there is none, when its value does not parse or when the read fails.
C19_GetSyncKeysFailsOpen ==
    last.op = "get_sync_keys" =>
        /\ last.returned
        /\ last.env.fault = "none" => last.keys = FlagKeys(store[last.env.owner])
        /\ last.env.fault # "none" =>
              last.keys \in {<<>>, FlagKeys(store[last.env.owner])}

\* C20: after save_sync_keys returned True the owner has exactly one
\* reserved metafield, its value is the JSON text of the keys and
\* get_sync_keys gives the keys back; a second call with the same keys
\* leaves the owner's metafields as the first call left them.
C20_SaveSyncKeysIdempotent ==
    last.op = "save_sync_keys" =>
        /\ last.returned =>
              /\ Cardinality(Positions(store[last.env.owner], SYNC_NAMESPACE, SYNC_KEY)) = 1
              /\ \A i \in Positions(store[last.env.owner], SYNC_NAMESPACE, SYNC_KEY) :
                    store[last.env.owner][i].value = JsonDumps(last.keys)
              /\ get_sync_keys(store[last.env.owner]) = last.keys
        /\ \A k \in 1..Len(last.prev) :
              ( /\ last.prev[k].returned
                /\ last.prev[k].owner = last.env.owner
                /\ last.prev[k].keys = last.keys ) =>
                  /\ store = last.before
                  /\ Cardinality(Positions(store[last.env.owner],
                                           SYNC_NAMESPACE, SYNC_KEY)) = 1

\* A second save of the same keys on the same owner, both returning True,
\* the second one not finding the reserved metafield (its read failed).
C20_Witness ==
    /\ last.op = "save_sync_keys"
    /\ last.returned
    /\ last.env.fault = "first"
    /\ \E k \in 1..Len(last.prev) :
          /\ last.prev[k].returned
          /\ last.prev[k].owner = last.env.owner
          /\ last.prev[k].keys = last.keys

\* The (namespace, key) pairs of the metafields of listing after that
\* listing before does not have as they are (created or changed).
Touched(before, after) ==
    {<<after[i].namespace, after[i].key>> :
        i \in {k \in 1..Len(after) : \A j \in 1..Len(before) : before[j] # after[k]}}

\* C21: a sync writes to Shop B and Shop C only fields marked for sync:
\* every write request to a target product is for a key of the primary
\* product's sync set, every write request to a target variant for a key of
\* the primary variant's sync set, and no other metafield of a target is
\* created or changed.
C21_OnlyMarkedWritten ==
    last.op = "sync_product_fields" =>
        \A shop \in DOMAIN last.results :
            /\ \A e \in Range(last.results[shop].events) :
                  e.key \in Range(FlagKeys(last.before[IF e.owner = shop \o ":P"
                                                      THEN "A:P" ELSE "A:V"]))
            /\ \A nk \in Touched(last.before[shop \o ":P"], store[shop \o ":P"]) :
                  nk[2] \in Range(FlagKeys(last.before["A:P"]))
            /\ \A nk \in Touched(last.before[shop \o ":V"], store[shop \o ":V"]) :
                  nk[2] \in Range(FlagKeys(last.before["A:V"]))

\* A sync that wrote a marked field to a target product while the primary
\* product has a metafield that is not marked, which the target did not get.
C21_Witness ==
    /\ last.op = "sync_product_fields"
    /\ \E shop \in DOMAIN last.results :
          /\ \E e \in Range(last.results[shop].events) : e.result = "ok"
          /\ \E i \in 1..Len(last.before["A:P"]) :
                /\ last.before["A:P"][i].key \notin Range(FlagKeys(last.before["A:P"]))
                /\ ~Has(store[shop \o ":P"], last.before["A:P"][i].namespace,
                        last.before["A:P"][i].key)

\* C26: a sync returns one result for each of the two target stores; a
\* store whose part failed (connection error, no active match, exception)
\* has the failure as the last line of its log, the fields written before
\* the failure are still on the target, and Shop C is connected whatever
\* became of Shop B and, when nothing fails there, synced to the end.
C26_BestEffortPerStore ==
    last.op = "sync_product_fields" =>
        /\ DOMAIN last.results = {"B", "C"}
        /\ \A shop \in {"B", "C"} :
              /\ last.results[shop].status # "done" =>
                    last.results[shop].log[Len(last.results[shop].log)].tag
                        \in {"sync failed", "Target product not found or inactive"}
              /\ \A e \in Range(last.results[shop].events) :
                    e.result = "ok" => Has(store[e.owner], e.ns, e.key)
        /\ \E k \in 1..Len(last.trace) : last.trace[k] = SessionEvent("connect", "", "C")
        /\ (cfg.C = "active" /\ last.env.conn # "C" /\ last.env.foreign = "empty") =>
              last.results["C"].status = "done"

\* Shop B's part failed after a field was written there, and a field was
\* written in Shop C afterwards.
C26_Witness ==
    /\ last.op = "sync_product_fields"
    /\ last.results["B"].status = "failed"
    /\ \E e \in Range(last.results["B"].events) : e.result = "ok"
    /\ \E e \in Range(last.results["C"].events) : e.result = "ok"

\* C27: during a sync every read of a resource is sent while the session of
\* the store the resource belongs to is the active one: the primary's sync
\* keys and metafields are read from Shop A, a target's from that target.
C27_ReadsUnderOwnSession ==
    last.op = "sync_product_fields" =>
        \A k \in 1..Len(last.trace) :
            last.trace[k].op = "read" =>
                StoreOf(last.trace[k].owner) = last.trace[k].session

(***************************************************************************)
(* Remote request helpers: _rest (copy_product_meta_fields.py), shopify_get *)
(* / shopify_post / shopify_put (copy_product_meta.py; the requests module  *)
(* is taken to be importable) and get_product_metafields_with_retries      *)
(* (streamlit_app.py).  One call of one helper; the remote answers each    *)
(* request with one of Statuses.                                           *)
(***************************************************************************)
Helpers ==
    {"_rest", "shopify_get", "shopify_post", "shopify_put",
     "get_product_metafields_with_retries"}

Statuses == {200, 204, 404, 429, 500}

\* What the helper fn does with answer s to its n-th request (n from 1):
\* "return", "raise", "sleep" (and retry), "again" (retry at once) or
\* "give_up" (return [] with a warning).
OnStatus(fn, s, n) ==
    CASE fn = "_rest" ->
            IF s = 429 \/ s >= 500
            THEN (IF n < max_retries THEN "sleep" ELSE "raise")
            ELSE IF s >= 400 THEN "raise" ELSE "return"
      [] fn = "shopify_get" ->
            IF s = 429 THEN "sleep"
            ELSE IF s >= 400 \/ s = 204 THEN "raise" ELSE "return"
      [] fn \in {"shopify_post", "shopify_put"} ->
            IF s = 429 THEN "sleep"
            ELSE IF s \in {200, 201} THEN "return"
            ELSE IF s >= 400 THEN "raise" ELSE "again"
      [] OTHER ->
            IF s = 429 THEN (IF n < Backoffs THEN "sleep" ELSE "give_up")
            ELSE IF s >= 400 THEN "give_up" ELSE "return"

\* The argument of time.sleep() before the retry that follows answer s to
\* the n-th request, in tenths of a second: Retry-After (taken as its default
\* "2") or 1.5 * (attempt + 1) in _rest, 2 in shopify_get / _post / _put, the
\* n-th of backoffs in get_product_metafields_with_retries.
sleep_for(fn, s, n) ==
    CASE fn = "_rest" -> (IF s = 429 THEN 20 ELSE 15 * n)
      [] fn = "get_product_metafields_with_retries" ->
            <<6, 12, 20, 30>>[IF n > Backoffs THEN Backoffs ELSE n]
      [] OTHER -> 20

Idle ==
    [fn |-> "", pc |-> "idle", sent |-> 0, status |-> 0, result |-> "",
     calls |-> 0, wait |-> 0]

HttpInit ==
    /\ http = Idle
    /\ store = Empty
    /\ cfg = DefaultCfg
    /\ last = 0
    /\ npass = 0
    /\ pager = 0

\* A caller calls helper fn.
HttpCall ==
    /\ http.pc \in {"idle", "done"}
    /\ http.calls < MaxCalls
    /\ \E fn \in Helpers :
          http' = [Idle EXCEPT !.fn = fn, !.pc = "request", !.calls = http.calls + 1]
    /\ UNCHANGED <<store, cfg, last, npass, pager>>

\* The helper sends its request and the remote answers it with status s;
\* the helper acts on the answer.
HttpRespond ==
    /\ http.pc = "request"
    /\ \E s \in Statuses :
          LET n == http.sent + 1
              act == OnStatus(http.fn, s, n)
          IN http' = [http EXCEPT
                        !.sent = IF n > SentCap THEN SentCap ELSE n,
                        !.status = s,
                        !.wait = IF act = "sleep" THEN sleep_for(http.fn, s, n) ELSE 0,
                        !.pc = CASE act = "sleep" -> "sleep"
                                 [] act = "again" -> "request"
                                 [] OTHER -> "done",
                        !.result = CASE act = "return" -> "returned"
                                     [] act = "raise" -> "raised"
                                     [] act = "give_up" -> "warned"
                                     [] OTHER -> ""]
    /\ UNCHANGED <<store, cfg, last, npass, pager>>

\* time.sleep() is over: the helper goes round its loop.
HttpWake ==
    /\ http.pc = "sleep"
    /\ http' = [http EXCEPT !.pc = "request"]
    /\ UNCHANGED <<store, cfg, last, npass, pager>>

HttpNext == HttpCall \/ HttpRespond \/ HttpWake

\* The helper's thread is scheduled: it sends, sleeps and wakes.
HttpSpec ==
    HttpInit /\ [][HttpNext]_vars /\ WF_vars(HttpRespond) /\ WF_vars(HttpWake)

(***************************************************************************)
(* Paginated fetches.  The remote result set is a list of items served in  *)
(* pages of PageSize; fail_at = k > 0: the request of page k fails.        *)
(***************************************************************************)
Fetchers ==
    {"find_product_metafields_all", "find_variant_metafields_all",
     "get_all_products_cached", "get_all_products", "_paginate_get"}

NumPages(items) == (Len(items) + PageSize - 1) \div PageSize

\* What a fetch returns: status "returned" or "raised", and the items.
fetch_all(fn, items, fail_at) ==
    CASE fn = "_paginate_get" ->
            \* copy_product_meta_fields.py: every page goes through _rest,
            \* whose exception leaves the loop and the function.
            IF fail_at > 0 /\ (fail_at = 1 \/ fail_at <= NumPages(items))
            THEN [status |-> "raised", out |-> <<>>]
            ELSE [status |-> "returned", out |-> items]
      [] fn = "get_all_products" ->
            \* copy_product_meta.py: the loop breaks after its first page.
            IF fail_at = 1
            THEN [status |-> "raised", out |-> <<>>]
            ELSE [status |-> "returned",
                  out |-> SubSeq(items, 1, Min(Len(items), PageSize))]
      [] OTHER ->
            \* streamlit_app.py: the loops of :135-141, :152-158, :165-171.
            [status |-> IF fail_at = 1 THEN "raised" ELSE "returned",
             out |-> PagedFetch(items, fail_at).items]

PagerInit ==
    /\ pager \in [fn : Fetchers, n : 0..MaxItems, fail_at : 0..MaxItems,
                  status : {"idle"}, out : {<<>>}, runs : {0}]
    /\ store = Empty
    /\ cfg = DefaultCfg
    /\ last = 0
    /\ npass = 0
    /\ http = 0

\* The items of a result set of n items.
Items(n) == [i \in 1..n |-> i]

\* The fetch is run (again, after a failure or a refresh).
Fetch ==
    /\ pager.runs < MaxPasses
    /\ \E fail_at \in {0, pager.fail_at} :
          pager' = [pager EXCEPT
                      !.fail_at = fail_at,
                      !.status = fetch_all(pager.fn, Items(pager.n), fail_at).status,
                      !.out = fetch_all(pager.fn, Items(pager.n), fail_at).out,
                      !.runs = @ + 1]
    /\ UNCHANGED <<store, cfg, last, npass, http>>

PagerNext == Fetch

PagerSpec == PagerInit /\ [][PagerNext]_vars

(***************************************************************************)
(* Properties of the request helpers (HttpSpec) and of the paginated       *)
(* fetches (PagerSpec).                                                    *)
(***************************************************************************)
\* C6: every call of a request helper ends after a bounded number of
\* requests: from every request of a call on, either the call ends (it
\* returns or surfaces a failure) or the remote gives an answer other than
\* 429; a remote that answers 429 to every request cannot keep a helper
\* retrying forever.
C6_HelpersTerminate ==
    (http.pc = "request") ~> (http.pc = "done" \/ http.status \notin {0, 429})

WriteHelpers == {"_rest", "shopify_post", "shopify_put"}

\* C11: a write helper whose request is answered with a 2xx status returns
\* after that answer, and it sends its request again only after an answer
\* 429 or 5xx.
C11_WriteOnce ==
    http.fn \in WriteHelpers =>
        /\ (http.status >= 200 /\ http.status < 300) =>
                (http.pc = "done" /\ http.result = "returned")
        /\ (http.sent >= 1 /\ http.pc # "done") =>
                (http.status = 429 \/ http.status >= 500)

\* C18: every helper retries a request answered with 5xx: after a first 5xx
\* answer the call is not over (the helper sleeps and sends the request
\* again), and the sleep before the n-th retry is n times the first one.
C18_ServerErrorRetried ==
    (http.pc # "idle" /\ http.status >= 500) =>
        /\ http.sent = 1 => http.pc # "done"
        /\ http.pc = "sleep" => http.wait = http.sent * sleep_for(http.fn, 500, 1)

\* C7: a paginated fetch that returns, returns all the items of the remote
\* result set in their order; when a page cannot be fetched it does not
\* return.
C7_FetchComplete ==
    pager.status = "returned" => pager.out = Items(pager.n)

(***************************************************************************)
(* Cross-store matching of the sync (update_app.py:38-73, :96-122,         *)
(* :160-168): the target product is looked up by the barcode of the        *)
(* primary's first variant that has one, the target variant by the barcode *)
(* of each primary variant.                                                *)
(***************************************************************************)
CatalogProduct(id, handle, title, status, vs) ==
    [id |-> id, handle |-> handle, title |-> title, status |-> status, variants |-> vs]

\* "variant.barcode and variant.barcode.strip() == barcode" (:60, :71).
BarcodeIs(variant, barcode) ==
    variant.barcode # "" /\ Strip(variant.barcode) = barcode

\* update_app.py: get_variant_barcode(resource): the stripped barcode of the
\* first variant whose barcode is not empty, or None.
get_variant_barcode(resource) ==
    LET with == {i \in 1..Len(resource.variants) : resource.variants[i].barcode # ""} IN
    IF with = {} THEN [none |-> TRUE, barcode |-> ""]
    ELSE [none |-> FALSE,
          barcode |-> Strip(resource.variants[CHOOSE i \in with :
                                                 \A j \in with : i <= j].barcode)]

\* update_app.py: find_product_by_variant_barcode(barcode) over the products
\* the store lists (fail_at: the page whose request fails; a failure of
\* next_page() ends the search): the first product with such a variant, or
\* None.
find_product_by_variant_barcode(products, barcode, fail_at) ==
    LET seen == PagedFetch(products, fail_at).items
        hits == {i \in 1..Len(seen) :
                    \E k \in 1..Len(seen[i].variants) : BarcodeIs(seen[i].variants[k], barcode)}
    IN IF hits = {} THEN [none |-> TRUE, product |-> CatalogProduct("", "", "", "", <<>>)]
       ELSE [none |-> FALSE, product |-> seen[CHOOSE i \in hits : \A j \in hits : i <= j]]

\* A lookup of the target variant by its title.
find_variant_by_title(product, v) ==
    LET hits == {k \in 1..Len(product.variants) :
                    Strip(product.variants[k].title) = Strip(v.title)}
    IN IF hits = {} THEN ""
       ELSE product.variants[CHOOSE k \in hits : \A j \in hits : k <= j].id

\* update_app.py: find_variant_by_barcode_in_product(product, barcode) for
\* the barcode of primary variant v: the id of the first variant of product
\* with that barcode, "" for None.
find_variant_by_barcode_in_product(product, v) ==
    LET hits == {k \in 1..Len(product.variants) :
                    BarcodeIs(product.variants[k], Strip(v.barcode))}
    IN IF hits = {} THEN ""
       ELSE product.variants[CHOOSE k \in hits : \A j \in hits : k <= j].id

\* The loop over the primary's variants (:160-168): a variant without a
\* barcode is passed over, the others are looked up in the target product.
VariantMatches(primary, target) ==
    [i \in 1..Len(primary.variants) |->
        [variant |-> primary.variants[i].id,
         passed_over |-> primary.variants[i].barcode = "",
         target |-> IF primary.variants[i].barcode = "" THEN ""
                    ELSE find_variant_by_barcode_in_product(target, primary.variants[i])]]

\* A test that takes every target for an active product.
TargetActive(found) == "active"

\* What find_product_by_variant_barcode comes to for SyncStore (the test of
\* :119: "not target_product or target_product.status != 'active'").
TargetStatus(found) ==
    IF found.none THEN "missing"
    ELSE IF found.product.status = "active" THEN "active" ELSE "draft"

\* update_app.py: sync_product_fields(primary_product) with its look-ups, on
\* the catalogs of the two target stores.
sync_matched(st, primary, catalogs, fail_at, env) ==
    LET b == get_variant_barcode(primary)
        found == [s \in {"B", "C"} |->
                     find_product_by_variant_barcode(catalogs[s], b.barcode, fail_at)]
        u == sync_product_fields(st, [s \in {"B", "C"} |-> TargetStatus(found[s])],
                                 [env EXCEPT !.conn = IF fail_at = 1 THEN "B" ELSE @])
    IN IF b.none \/ b.barcode = ""
       THEN [st |-> st, warning |-> TRUE, results |-> <<>>, found |-> <<>>,
             trace |-> <<>>, variant_matches |-> <<>>]
       ELSE [st |-> u.st, warning |-> FALSE, results |-> u.results,
             found |-> found, trace |-> u.trace,
             variant_matches |->
                 [s \in {"B", "C"} |->
                     IF u.results[s].status = "done"
                     THEN VariantMatches(primary, found[s].product) ELSE <<>>]]

\* The primary products and the products of the target store of the model.
Primaries ==
    {CatalogProduct("A1", "lamp", "Lamp", "active", vs) :
        vs \in {<<Variant("a1", "S", "", "111", 1)>>,
                <<Variant("a1", "S", "", "", 1), Variant("a2", "M", "", " 111", 2)>>,
                <<Variant("a1", "S", "", "", 1)>>,
                <<Variant("a1", "M", "", "111", 1), Variant("a2", "L", "", "333", 2)>>}}

TargetPool ==
    {CatalogProduct("T1", "lamp-1", "Desk", s, <<Variant("t1", "S", "", "111", 1)>>) :
        s \in {"active", "draft"}}
    \cup {CatalogProduct("T2", "lamp-2", "Desk", "active",
                         <<Variant("t2", "M", "", "222", 1),
                           Variant("t3", "L", "", "111 ", 2)>>)}
    \cup {CatalogProduct("T3", "lamp", "lamp ", "active",
                         <<Variant("t4", "S", "", "", 1)>>)}

\* The listings of a target store: up to MaxItems different products.
Catalogs ==
    {c \in UNION {[1..n -> TargetPool] : n \in 0..MaxItems} :
        \A i, j \in 1..Len(c) : c[i].id = c[j].id => i = j}

MatchInit ==
    /\ store = [o \in SyncOwners |->
                  IF o = "A:P"
                  THEN <<Metafield("a", "x", "integer", "1"),
                         Metafield(SYNC_NAMESPACE, SYNC_KEY, "json", "[\"x\"]")>>
                  ELSE <<>>]
    /\ cfg \in [primary : Primaries, B : Catalogs, C : {<<>>}]
    /\ last = [op |-> "none", warning |-> FALSE, results |-> <<>>, found |-> <<>>,
               variant_matches |-> <<>>, fail_at |-> 0, trace |-> <<>>, before |-> <<>>]
    /\ npass = 0
    /\ http = 0
    /\ pager = 0

\* The operator presses "Sync Product Fields" for the primary product.
SyncMatched ==
    /\ npass < MaxPasses
    /\ \E fail_at \in 0..2, env \in {e \in SyncEnvs : e.conn = "none"} :
          LET u == sync_matched(store, cfg.primary, cfg, fail_at, env) IN
          /\ store' = u.st
          /\ last' = [op |-> "sync_product_fields", warning |-> u.warning,
                      results |-> u.results, found |-> u.found,
                      variant_matches |-> u.variant_matches, fail_at |-> fail_at,
                      trace |-> u.trace, before |-> store]
    /\ npass' = npass + 1
    /\ UNCHANGED <<cfg, http, pager>>

MatchNext == SyncMatched

MatchSpec == MatchInit /\ [][MatchNext]_vars

(***************************************************************************)
(* Properties of the cross-store matching, checked under MatchSpec.        *)
(***************************************************************************)
\* The variants of target product t that carry the barcode of variant v.
BarcodeCandidates(t, v) ==
    {k \in 1..Len(t.variants) :
        t.variants[k].barcode # "" /\ Strip(t.variants[k].barcode) = Strip(v.barcode)}

\* C13: a primary variant with a barcode is matched by barcode alone: when
\* exactly one variant of the target product carries its barcode that
\* variant is selected, whatever the titles are, and when none does there is
\* no match even if a title agrees.
C13_BarcodeFirst ==
    \A s \in DOMAIN last.variant_matches :
        \A i \in 1..Len(last.variant_matches[s]) :
            LET v == cfg.primary.variants[i]
                t == last.found[s].product
                c == BarcodeCandidates(t, v)
            IN v.barcode # "" =>
                 /\ Cardinality(c) = 1 =>
                       \E k \in c : last.variant_matches[s][i].target = t.variants[k].id
                 /\ c = {} => last.variant_matches[s][i].target = ""

\* A primary variant with barcode and title whose barcode one target variant
\* carries while its title is that of another target variant.
C13_Witness ==
    \E s \in DOMAIN last.variant_matches :
        \E i \in 1..Len(last.variant_matches[s]) :
            LET v == cfg.primary.variants[i]
                t == last.found[s].product
            IN /\ v.barcode # "" /\ v.title # ""
               /\ Cardinality(BarcodeCandidates(t, v)) = 1
               /\ \E k \in 1..Len(t.variants) :
                     /\ t.variants[k].title = v.title
                     /\ k \notin BarcodeCandidates(t, v)
               /\ last.variant_matches[s][i].target # ""

\* The products of catalog c that match the primary p by strategy n of the
\* specification: 1 a variant barcode in common, 2 the handle, 3 the trimmed
\* lower-case title.
StrategyCandidates(p, c, n) ==
    {i \in 1..Len(c) :
        CASE n = 1 -> \E a \in 1..Len(p.variants), b \in 1..Len(c[i].variants) :
                         /\ p.variants[a].barcode # ""
                         /\ BarcodeIs(c[i].variants[b], Strip(p.variants[a].barcode))
          [] n = 2 -> c[i].handle = p.handle
          [] OTHER -> Lower(Strip(c[i].title)) = Lower(Strip(p.title))}

\* The product the ordered fallback selects: the only candidate of the first
\* strategy that has exactly one, "" when no strategy has.
ConfidentMatch(p, c) ==
    LET ok == {n \in 1..3 : Cardinality(StrategyCandidates(p, c, n)) = 1} IN
    IF ok = {} THEN ""
    ELSE c[CHOOSE i \in StrategyCandidates(p, c, CHOOSE n \in ok : \A m \in ok : n <= m) :
             TRUE].id

\* C14: the target product of a store is the one the ordered fallback
\* (barcode, handle, title; a strategy counts only with exactly one
\* candidate) selects, and a store without a confident match is not written.
C14_ConfidentMatch ==
    (last.op = "sync_product_fields" /\ ~last.warning /\ last.fail_at = 0) =>
        /\ ~last.found["B"].none =>
              last.found["B"].product.id = ConfidentMatch(cfg.primary, cfg.B)
        /\ ConfidentMatch(cfg.primary, cfg.B) = "" =>
              last.results["B"].events = <<>>

\* C30: a sync writes nothing in a target store that lists no product with
\* a barcode of the primary, or whose matched product is not active: the
\* store's result is an error entry; a primary without any variant barcode
\* gets the warning, and no store is connected and nothing is written.
C30_NoWriteWithoutActiveMatch ==
    last.op = "sync_product_fields" =>
        /\ last.warning <=> get_variant_barcode(cfg.primary).none
        /\ last.warning =>
              /\ store = last.before
              /\ last.trace = <<>>
              /\ last.results = <<>>
        /\ ~last.warning =>
              \A s \in {"B", "C"} :
                  ( \/ StrategyCandidates(cfg.primary, cfg[s], 1) = {}
                    \/ (~last.found[s].none /\ last.found[s].product.status # "active") )
                  => /\ last.results[s].status \in {"error", "failed"}
                     /\ last.results[s].events = <<>>
                     /\ store[s \o ":P"] = last.before[s \o ":P"]
                     /\ store[s \o ":V"] = last.before[s \o ":V"]

\* A sync whose match in Shop B is a product that is not active: the store's
\* result is the error and the target product has none of the primary's
\* fields.
C30_Witness ==
    /\ last.op = "sync_product_fields"
    /\ ~last.warning
    /\ ~last.found["B"].none
    /\ last.found["B"].product.status # "active"
    /\ last.results["B"].status = "error"
    /\ store["B:P"] = <<>>

(***************************************************************************)
(* The two coercers on one field: _normalize_value_for_type of the copy    *)
(* engine (streamlit_app.py:194-210) and convert_value_for_type of the     *)
(* cross-store sync (update_app.py:84-93), alone and inside a pass over a  *)
(* donor whose only regular metafield is a.x with the given type and text; *)
(* the receiver (P2 for the copy, the target product of Shop B for the     *)
(* sync) has no a.x, or an a.x of a text type or of the generic type.      *)
(***************************************************************************)
CoerceTypes == {"integer", "float", "boolean", "json", "string"}

CoerceValues ==
    {"true", "True", "Yes", "1", "y", "T", "0", "false", "abc", "42", " 42 ",
     "[\"x\"]", "{bad"}

\* The (text, type) pairs of the model; for type json the texts are those
\* JsonLoads decides as json.loads does.
CoerceInputs ==
    {c \in [value : CoerceValues, mtype : CoerceTypes] :
        c.mtype = "json" => c.value \in {"[\"x\"]", "{bad", "abc", "True"}}

CoerceInit ==
    /\ cfg \in CoerceInputs
    /\ store \in {[o \in Owners \cup SyncOwners |->
                     CASE o = "P1" -> <<Metafield("a", "x", cfg.mtype, cfg.value)>>
                       [] o = "A:P" ->
                            <<Metafield("a", "x", cfg.mtype, cfg.value),
                              Metafield(SYNC_NAMESPACE, SYNC_KEY, "json", "[\"x\"]")>>
                       [] o \in {"P2", "B:P"} -> r
                       [] OTHER -> <<>>] :
                  r \in {<<>>, <<Metafield("a", "x", "single_line_text_field", "old")>>,
                         <<Metafield("a", "x", "string", "old")>>}}
    /\ last = [op |-> "none", copy |-> PyNone, sync |-> [ok |-> TRUE, v |-> PyNone],
               passes |-> <<>>, results |-> <<>>, before |-> <<>>]
    /\ npass = 0
    /\ http = 0
    /\ pager = 0

\* The two coercers are applied to the text of the field.
Coerce ==
    /\ npass = 0
    /\ last' = [last EXCEPT
                  !.op = "coerce",
                  !.copy = normalize_value_for_type(PyStr(cfg.value), cfg.mtype),
                  !.sync = convert_value_for_type(PyStr(cfg.value), cfg.mtype),
                  !.before = store]
    /\ npass' = npass + 1
    /\ UNCHANGED <<store, cfg, http, pager>>

\* copy_product_metafields(P1, P2, overwrite=True, dry_run=...).
CoerceCopy ==
    /\ npass = 0
    /\ \E dry_run \in BOOLEAN, o \in Outcomes :
          LET r == copy_product_metafields(store, "P1", "P2",
                       Options(NoKeys, {}, TRUE, FALSE, dry_run),
                       [fetch |-> "none", out |-> [AllOk EXCEPT ![1] = o]])
          IN /\ store' = r.store
             /\ last' = [last EXCEPT !.op = "copy", !.passes = <<r.result>>,
                                     !.before = store]
    /\ npass' = npass + 1
    /\ UNCHANGED <<cfg, http, pager>>

\* sync_product_fields(primary) with an active target in Shop B.
CoerceSync ==
    /\ npass = 0
    /\ \E env \in {e \in SyncEnvs : e.conn = "none"} :
          LET u == sync_product_fields(store, [B |-> "active", C |-> "missing"], env)
          IN /\ store' = u.st
             /\ last' = [last EXCEPT !.op = "sync", !.results = u.results,
                                     !.before = store]
    /\ npass' = npass + 1
    /\ UNCHANGED <<cfg, http, pager>>

CoerceNext == Coerce \/ CoerceCopy \/ CoerceSync

CoerceSpec == CoerceInit /\ [][CoerceNext]_vars

(***************************************************************************)
(* Properties of the coercers, checked under CoerceSpec.                   *)
(***************************************************************************)
\* C15: for type boolean both coercers return true exactly when the
\* lower-cased text is "yes", "1" or "true", and false otherwise; they agree
\* on every input.
C15_BooleanTruthySet ==
    (last.op = "coerce" /\ cfg.mtype = "boolean") =>
        /\ last.copy = PyBool(Lower(cfg.value) \in {"yes", "1", "true"})
        /\ last.sync.ok
        /\ last.sync.v = last.copy

\* The write requests for a.x of the pass or sync that was run.
FieldWrites ==
    {e \in UNION {Range(last.passes[i].events) : i \in 1..Len(last.passes)}
           \cup UNION {Range(last.results[s].events) : s \in DOMAIN last.results} :
        e.ev = "write" /\ e.ns = "a" /\ e.key = "x"}

\* C16: for type json a text that is not valid JSON is returned unchanged by
\* both coercers, without an exception, and a live pass or a sync still
\* sends a write for the field.
C16_InvalidJsonPassedThrough ==
    (cfg.mtype = "json" /\ ~JsonLoads(cfg.value).ok) =>
        /\ last.op = "coerce" =>
              /\ last.copy = PyStr(cfg.value)
              /\ last.sync.ok
              /\ last.sync.v = PyStr(cfg.value)
        /\ (last.op = "copy" /\ ~last.passes[1].opts.dry_run) => FieldWrites # {}
        /\ last.op = "sync" => FieldWrites # {}

\* C17: for type integer a text that is not a number is a per-field error of
\* a live pass and of a sync: it is counted, logged with the key of the
\* field, and the receiver's metafields stay as they were.
C17_NonNumericIntegerIsError ==
    (cfg.mtype = "integer" /\ ~ParseNumber(cfg.value).ok) =>
        /\ (last.op = "copy" /\ ~last.passes[1].opts.dry_run) =>
              /\ last.passes[1].summary.errors = 1
              /\ \E n \in 1..Len(last.passes[1].logs) :
                    /\ last.passes[1].logs[n].tag \in {"Failed to save", "Error"}
                    /\ last.passes[1].logs[n].key = "x"
              /\ store["P2"] = last.before["P2"]
        /\ (last.op = "sync" /\ last.results["B"].status = "done") =>
              /\ last.results["B"].field_results["x"] = FAILURE_ICON
              /\ \E n \in 1..Len(last.results["B"].log) :
                    /\ last.results["B"].log[n].tag = "Error syncing"
                    /\ last.results["B"].log[n].key = "x"
              /\ store["B:P"] = last.before["B:P"]

\* The declared type of a.x in a listing.
TypeOfField(mfs) ==
    mfs[CHOOSE i \in Positions(mfs, "a", "x") : TRUE].type

\* The type the receiver's a.x is to have after an update: its prior type,
\* or the donor's when the prior type is unset or the generic "string".
KeptType(prior, donors) ==
    IF prior \in {"", "string"} THEN donors ELSE {prior}

\* C24: after a pass or a sync updated a.x on a receiver that had it, the
\* type of the receiver's a.x is its prior type, unless that was unset or
\* "string": then it is the donor's type.
C24_PriorTypeKept ==
    /\ ( /\ last.op = "copy"
          /\ Has(last.before["P2"], "a", "x")
          /\ \E e \in FieldWrites : e.result = "ok" )
       => TypeOfField(store["P2"])
             \in KeptType(TypeOfField(last.before["P2"]), {cfg.mtype})
    /\ ( /\ last.op = "sync"
          /\ Has(last.before["B:P"], "a", "x")
          /\ \E e \in FieldWrites : e.result = "ok" )
       => TypeOfField(store["B:P"])
             \in KeptType(TypeOfField(last.before["B:P"]),
                          {cfg.mtype, normalize_type(cfg.mtype)})

(***************************************************************************)
(* The cached product list of the page (streamlit_app.py:129-145,          *)
(* :575-590, :623-627).  store[s] is the version of the product list of    *)
(* store s on the remote; pager.memo is the table of st.cache_data for     *)
(* get_all_products_cached (one per process, keyed by url and token, no    *)
(* ttl), pager.session the entries products_<store> of st.session_state;   *)
(* an entry is <<>> when absent, <<v>> when it holds the list of version v.*)
(***************************************************************************)
StoreKeys == {"A", "B", "C"}

NoLists == [s \in StoreKeys |-> <<>>]

\* streamlit_app.py: get_all_products_cached(shop_url, token) under
\* @st.cache_data: the body runs (and reads the remote) only when the table
\* has no entry for the arguments; the returned list is then kept.
get_all_products_cached(memo, remote, s) ==
    IF memo[s] # <<>>
    THEN [memo |-> memo, out |-> memo[s][1], fetched |-> FALSE]
    ELSE [memo |-> [memo EXCEPT ![s] = <<remote[s]>>], out |-> remote[s],
          fetched |-> TRUE]

\* One run of the page script for store s up to "products = ..." (:575-590).
script_run(caches, remote, s) ==
    LET g == get_all_products_cached(caches.memo, remote, s) IN
    IF caches.session[s] = <<>>
    THEN [caches |-> [memo |-> g.memo,
                      session |-> [caches.session EXCEPT ![s] = <<g.out>>]],
          fetched |-> g.fetched, products |-> g.out]
    ELSE [caches |-> caches, fetched |-> FALSE, products |-> caches.session[s][1]]

CacheInit ==
    /\ store = [s \in StoreKeys |-> 0]
    /\ pager = [memo |-> NoLists, session |-> NoLists]
    /\ cfg = [store_key |-> "A"]
    /\ last = [op |-> "none", store_key |-> "", fetched |-> FALSE, products |-> 0,
               held |-> <<>>]
    /\ npass = 0
    /\ http = 0

\* The operator opens the page for a store or interacts with a widget: the
\* script runs from the top.
Interact ==
    /\ npass < MaxRuns
    /\ \E s \in StoreKeys :
          LET r == script_run(pager, store, s) IN
          /\ pager' = r.caches
          /\ cfg' = [store_key |-> s]
          /\ last' = [op |-> "rerun", store_key |-> s, fetched |-> r.fetched,
                      products |-> r.products, held |-> pager.session[s]]
    /\ npass' = npass + 1
    /\ UNCHANGED <<store, http>>

\* The operator presses "Refresh product list" of the store on the page
\* (:625-627): the entry of the session is popped and the script runs again.
RefreshProductList ==
    /\ npass < MaxRuns
    /\ pager.session[cfg.store_key] # <<>>
    /\ LET r == script_run([pager EXCEPT !.session[cfg.store_key] = <<>>],
                           store, cfg.store_key)
       IN /\ pager' = r.caches
          /\ last' = [op |-> "refresh", store_key |-> cfg.store_key,
                      fetched |-> r.fetched, products |-> r.products,
                      held |-> pager.session[cfg.store_key]]
    /\ npass' = npass + 1
    /\ UNCHANGED <<store, cfg, http>>

\* The products of a store are changed on the remote (by anyone).
RemoteChange ==
    /\ \E s \in StoreKeys :
          /\ store[s] < MaxRemote
          /\ store' = [store EXCEPT ![s] = @ + 1]
    /\ UNCHANGED <<cfg, last, npass, http, pager>>

\* A new browser session of the same process: st.session_state starts empty,
\* the table of st.cache_data is the process's.
NewSession ==
    /\ pager.session # NoLists
    /\ pager' = [pager EXCEPT !.session = NoLists]
    /\ UNCHANGED <<store, cfg, last, npass, http>>

CacheNext == Interact \/ RefreshProductList \/ RemoteChange \/ NewSession

CacheSpec == CacheInit /\ [][CacheNext]_vars

\* C22: a run of the page that finds the store's list in the session does
\* not fetch and shows that list; the run that follows a press of "Refresh
\* product list" fetches the list from the remote and shows the store's
\* products as they are now.
C22_RefreshRefetches ==
    /\ (last.op = "rerun" /\ last.held # <<>>) =>
          (~last.fetched /\ last.products = last.held[1])
    /\ last.op = "refresh" =>
          (last.fetched /\ last.products = store[last.store_key])

====
